---- MODULE Spec2Model ----
(***************************************************************************)
(* Robot Framework files creator (VS Code extension).                      *)
(*                                                                         *)
(* Two builds of the extension are in the repository:                      *)
(*   "imports" : src/src/extension.ts  (test/resource/variables commands   *)
(*               run createRobotFileWithImports, locators runs             *)
(*               createRobotFile)                                          *)
(*   "simple"  : src/unnamed/part_000  (all four commands run              *)
(*               createRobotFile with a fixed template)                    *)
(*                                                                         *)
(* A handler is an async function: the synchronous code between two awaits *)
(* is one atomic step, so there is one action per await point (and one per *)
(* answer the user or the host can give there).                            *)
(*                                                                         *)
(* Text is modelled by TLA+ strings (file bodies, import lines,            *)
(* notifications).  A typed file name is a sequence of one-character       *)
(* strings, so that the validator can look at each character; a path is a  *)
(* sequence of segments and is rendered into a string by joining.          *)
(***************************************************************************)
EXTENDS Naturals, Sequences, FiniteSets, TLC

\* ------------------------------------------------------------------ bounds
\* Longest sequence of picker items the user accepts in one session.
MaxSel == 2
\* Longest sequence of renderer inputs drawn in SpecRender.
MaxRender == 3
\* Longest name typed into the input box in SpecValidate.
MaxNameLen == 2
\* the most files a search returns in the grouping's specification
MaxTree == 3
\* the most runs of the confirmSelection and skipSelection commands
MaxCommands == 1

\* ---------------------------------------------------------------- strings
Null == "<undefined>"

RECURSIVE Concat(_)
\* the concatenation of a sequence of strings
Concat(ss) == IF ss = << >> THEN "" ELSE Head(ss) \o Concat(Tail(ss))

RECURSIVE JoinWith(_, _)
\* Array.prototype.join: the elements of ss, sep between two neighbours
JoinWith(ss, sep) ==
    IF ss = << >> THEN ""
    ELSE IF Len(ss) = 1 THEN ss[1]
    ELSE ss[1] \o sep \o JoinWith(Tail(ss), sep)

\* ------------------------------------------------------- file name validator
LowerCase == {"a", "b", "c", "e", "f", "i", "l", "m", "n", "o", "r", "s", "t", "y"}
UpperCase == {"Z"}
Digits    == {"2", "9"}
WhiteSpace == {" "}

\* the character class [a-zA-Z0-9_-] of the regular expression
InClass(c) == c \in LowerCase \/ c \in UpperCase \/ c \in Digits \/ c = "_" \/ c = "-"

\* String.prototype.trim(): leading and trailing white space removed
RECURSIVE TrimLeft(_)
TrimLeft(v) == IF v # << >> /\ Head(v) \in WhiteSpace THEN TrimLeft(Tail(v)) ELSE v
RECURSIVE TrimRight(_)
TrimRight(v) ==
    IF v # << >> /\ v[Len(v)] \in WhiteSpace THEN TrimRight(SubSeq(v, 1, Len(v) - 1)) ELSE v
Trim(v) == TrimRight(TrimLeft(v))

\* /^[a-zA-Z0-9_-]+$/.test(value)
RegexTest(v) == Len(v) >= 1 /\ \A i \in 1..Len(v) : InClass(v[i])

MsgEmpty == "File name cannot be empty"
MsgChars == "File name can only contain letters, numbers, underscores, and hyphens"

\* a plausible slip: the pattern without its anchors accepts any value that
\* holds one allowed character
validateInputUnanchored(v) ==
    IF v = << >> \/ Trim(v) = << >> THEN MsgEmpty
    ELSE IF ~(\E i \in 1..Len(v) : InClass(v[i])) THEN MsgChars
    ELSE Null

\* validateInput of showInputBox: the message shown, or Null when accepted
validateInput(v) ==
    IF v = << >> \/ Trim(v) = << >> THEN MsgEmpty
    ELSE IF ~RegexTest(v) THEN MsgChars
    ELSE Null

\* ------------------------------------------------------------------ paths
\* A directory is a sequence of segments from the file system root; a file
\* is [dir, stem, ext] and its base name is stem \o ext.
File(dir, stem, ext) == [dir |-> dir, stem |-> stem, ext |-> ext]
BaseName(f) == f.stem \o f.ext
\* the segments of a file's path
Segs(f) == Append(f.dir, BaseName(f))

Platforms == {"posix", "win32"}
\* path.sep
Sep(platform) == IF platform = "win32" THEN "\\" ELSE "/"

RECURSIVE CommonLen(_, _)
\* the length of the longest common prefix of two segment sequences
CommonLen(a, b) ==
    IF a # << >> /\ b # << >> /\ Head(a) = Head(b)
    THEN 1 + CommonLen(Tail(a), Tail(b)) ELSE 0

Ups(n) == [i \in 1..n |-> ".."]

\* path.relative(from, to) as segments: one ".." for each segment of `from`
\* below the common ancestor, then the rest of `to`
RelativeSegs(from, to) ==
    LET k == CommonLen(from, to)
    IN  Ups(Len(from) - k) \o SubSeq(to, k + 1, Len(to))

\* the tokens of a path string: segments with the platform separator between
Tokens(segs, platform) ==
    [i \in 1..(IF segs = << >> THEN 0 ELSE 2 * Len(segs) - 1) |->
        IF i % 2 = 1 THEN segs[(i + 1) \div 2] ELSE Sep(platform)]

\* .replace(/\\/g, '/') on the tokens of a path string
ReplaceBackslashes(toks) == [i \in DOMAIN toks |-> IF toks[i] = "\\" THEN "/" ELSE toks[i]]

\* a plausible slip: the separators are left as the platform wrote them
NormalizeNoReplace(segs, platform) == Concat(Tokens(segs, platform))

\* path.relative(...).replace(/\\/g, '/')
Normalize(segs, platform) == Concat(ReplaceBackslashes(Tokens(segs, platform)))

\* a plausible slip: the two arguments of path.relative are exchanged
getRelativePathSwapped(targetDir, f, platform) ==
    Normalize(RelativeSegs(Segs(f), targetDir), platform)

\* getRelativePath: the path from the target directory to the file
getRelativePath(targetDir, f, platform) ==
    Normalize(RelativeSegs(targetDir, Segs(f)), platform)

\* getAbsolutePath: the path from the workspace root to the file
getAbsolutePath(workspaceRoot, f, platform) ==
    Normalize(RelativeSegs(workspaceRoot, Segs(f)), platform)

\* ------------------------------------------------------ orders on strings
\* The spelling of the names the model sorts (folder paths and base names).
Chars(s) ==
    CASE s = "."               -> <<".">>
      [] s = "Library"         -> <<"L", "i", "b", "r", "a", "r", "y">>
      [] s = "Tests"           -> <<"T", "e", "s", "t", "s">>
      [] s = "sub"             -> <<"s", "u", "b">>
      [] s = "Library/sub"     -> <<"L", "i", "b", "r", "a", "r", "y", "/", "s", "u", "b">>
      [] s = "a.py"            -> <<"a", ".", "p", "y">>
      [] s = "B.py"            -> <<"B", ".", "p", "y">>
      [] s = "a.robot"         -> <<"a", ".", "r", "o", "b", "o", "t">>
      [] s = "locators.py"     -> <<"l", "o", "c", "a", "t", "o", "r", "s", ".", "p", "y">>
      [] s = "common.resource" -> <<"c", "o", "m", "m", "o", "n", ".", "r", "e", "s", "o", "u", "r", "c", "e">>
      [] OTHER                 -> <<s>>

\* the UTF-16 code unit of a character
CodeUnit(c) ==
    CASE c = "." -> 46 [] c = "/" -> 47 [] c = "B" -> 66
      [] c = "L" -> 76 [] c = "T" -> 84 [] c = "a" -> 97
      [] c = "b" -> 98 [] c = "c" -> 99 [] c = "e" -> 101 [] c = "i" -> 105
      [] c = "l" -> 108 [] c = "m" -> 109 [] c = "n" -> 110 [] c = "o" -> 111
      [] c = "p" -> 112 [] c = "r" -> 114 [] c = "s" -> 115 [] c = "t" -> 116
      [] c = "u" -> 117 [] c = "y" -> 121 [] OTHER -> 0

\* the primary collation weight of a character: punctuation before letters,
\* a letter and its capital alike
Primary(c) ==
    CASE c = "B" -> CodeUnit("b") [] c = "L" -> CodeUnit("l")
      [] c = "T" -> CodeUnit("t") [] OTHER -> CodeUnit(c)

RECURSIVE LexLess(_, _)
\* a < b, lexicographically, for two sequences of numbers
LexLess(a, b) ==
    IF b = << >> THEN FALSE
    ELSE IF a = << >> THEN TRUE
    ELSE IF Head(a) # Head(b) THEN Head(a) < Head(b)
    ELSE LexLess(Tail(a), Tail(b))

CodeUnits(s) == [i \in 1..Len(Chars(s)) |-> CodeUnit(Chars(s)[i])]
Primaries(s) == [i \in 1..Len(Chars(s)) |-> Primary(Chars(s)[i])]

\* the default comparison of Array.prototype.sort: by UTF-16 code units
CodeUnitLess(a, b) == LexLess(CodeUnits(a), CodeUnits(b))

\* a plausible slip: the names are compared by their code units
LocaleLessByCodeUnits(a, b) == LexLess(CodeUnits(a), CodeUnits(b))

\* a.localeCompare(b) < 0: primary weights first, then small before capital
LocaleLess(a, b) ==
    \/ LexLess(Primaries(a), Primaries(b))
    \/ /\ ~LexLess(Primaries(b), Primaries(a))
       /\ LexLess(CodeUnits(b), CodeUnits(a))

RECURSIVE InsertFolder(_, _)
\* x put into the sorted sequence s after the elements not greater than it
InsertFolder(x, s) ==
    IF s = << >> THEN <<x>>
    ELSE IF CodeUnitLess(x, Head(s)) THEN <<x>> \o s
    ELSE <<Head(s)>> \o InsertFolder(x, Tail(s))

RECURSIVE SortFolders(_)
\* Array.from(folderFiles.keys()).sort()
SortFolders(s) ==
    IF s = << >> THEN << >>
    ELSE InsertFolder(s[Len(s)], SortFolders(SubSeq(s, 1, Len(s) - 1)))

RECURSIVE InsertFile(_, _)
InsertFile(x, s) ==
    IF s = << >> THEN <<x>>
    ELSE IF LocaleLess(x.stem \o x.ext, Head(s).stem \o Head(s).ext) THEN <<x>> \o s
    ELSE <<Head(s)>> \o InsertFile(x, Tail(s))

RECURSIVE SortFiles(_)
\* filesInFolder.sort((a, b) => basename(a).localeCompare(basename(b))): stable
SortFiles(s) ==
    IF s = << >> THEN << >>
    ELSE InsertFile(s[Len(s)], SortFiles(SubSeq(s, 1, Len(s) - 1)))

RECURSIVE Dedup(_)
\* the keys of a Map filled in the order of s: first occurrences, in order
Dedup(s) ==
    IF s = << >> THEN << >>
    ELSE LET r == Dedup(SubSeq(s, 1, Len(s) - 1))
         IN  IF \E i \in 1..Len(r) : r[i] = s[Len(s)] THEN r ELSE Append(r, s[Len(s)])

Range(s) == {s[i] : i \in DOMAIN s}

\* --------------------------------------------------------- picker items
NoFile == File(<< >>, "", "")

PyTypes  == <<"Library", "Variables">>
ResTypes == <<"Resource", "Variables">>

\* '    '.repeat(n)
Indent(n) == Concat([i \in 1..n |-> "    "])

\* the icon of an import type in a label
IconOf(importType) ==
    IF importType = "Library" THEN "$(library)"
    ELSE IF importType = "Resource" THEN "$(file-code)" ELSE "$(symbol-variable)"

\* a separator item: a section header or a folder
SeparatorItem(label, depth, folderPath) ==
    [label |-> label, description |-> Null, detail |-> Null,
     isFile |-> FALSE, filePath |-> NoFile, relativePath |-> "",
     absolutePath |-> "", importType |-> Null, depth |-> depth, folderPath |-> folderPath]

\* a selectable item: one file under one import type
FileItem(f, importType, depth, folderPath, targetDir, workspaceRoot, platform, pathType) ==
    [label |-> Indent(depth) \o IconOf(importType) \o " " \o BaseName(f),
     description |-> "[" \o importType \o "]",
     detail |-> IF pathType = "relative"
                THEN getRelativePath(targetDir, f, platform)
                ELSE getAbsolutePath(workspaceRoot, f, platform),
     isFile |-> TRUE, filePath |-> f,
     relativePath |-> getRelativePath(targetDir, f, platform),
     absolutePath |-> getAbsolutePath(workspaceRoot, f, platform),
     importType |-> importType, depth |-> depth, folderPath |-> folderPath]

\* path.dirname(getAbsolutePath(file)): "." for a file in the workspace root
FolderOf(f, workspaceRoot) ==
    LET rel == RelativeSegs(workspaceRoot, Segs(f))
    IN  IF Len(rel) <= 1 THEN "." ELSE JoinWith(SubSeq(rel, 1, Len(rel) - 1), "/")

\* folder.split('/').length
FolderDepth(f, workspaceRoot) ==
    LET rel == RelativeSegs(workspaceRoot, Segs(f))
    IN  IF Len(rel) <= 1 THEN 1 ELSE Len(rel) - 1

\* the items of one folder: its separator, then its files sorted by base
\* name, each once per import type
FolderItems(folder, files, importTypes, targetDir, workspaceRoot, platform, pathType) ==
    LET InFolder(f) == FolderOf(f, workspaceRoot) = folder
        filesInFolder == SortFiles(SelectSeq(files, InFolder))
        depth == FolderDepth(filesInFolder[1], workspaceRoot)
        Leaves(f) == [t \in 1..Len(importTypes) |->
                        FileItem(f, importTypes[t], depth + 1, folder,
                                 targetDir, workspaceRoot, platform, pathType)]
        RECURSIVE All(_)
        All(fs) == IF fs = << >> THEN << >> ELSE Leaves(Head(fs)) \o All(Tail(fs))
    IN  <<SeparatorItem(Indent(depth) \o "$(folder) " \o folder, depth, folder)>>
        \o All(filesInFolder)

\* buildFolderStructure: the section header, then the folders in sorted order
buildFolderStructure(files, importTypes, sectionLabel, targetDir, workspaceRoot, platform, pathType) ==
    IF files = << >> THEN << >>
    ELSE LET folders == [i \in 1..Len(files) |-> FolderOf(files[i], workspaceRoot)]
             sortedFolders == SortFolders(Dedup(folders))
             RECURSIVE All(_)
             All(fo) == IF fo = << >> THEN << >>
                        ELSE FolderItems(Head(fo), files, importTypes,
                                         targetDir, workspaceRoot, platform, pathType)
                             \o All(Tail(fo))
         IN  <<SeparatorItem("$(folder-library) " \o sectionLabel, 0, "")>>
             \o All(sortedFolders)

\* the items of the quick pick: the .py section, then the .resource section
PickerItems(pyFiles, resourceFiles, targetDir, workspaceRoot, platform, pathType) ==
    buildFolderStructure(pyFiles, PyTypes, "Python Files (.py)",
                         targetDir, workspaceRoot, platform, pathType)
    \o buildFolderStructure(resourceFiles, ResTypes, "Resource Files (.resource)",
                            targetDir, workspaceRoot, platform, pathType)

\* new FileTreeItem(label, None, true, filePath, relativePath, absolutePath,
\* importType): a file item of the tree, its box not checked
FileTreeItem(label, filePath, relativePath, absolutePath, importType) ==
    [label |-> label, isFile |-> TRUE, filePath |-> filePath,
     relativePath |-> relativePath, absolutePath |-> absolutePath,
     importType |-> importType,
     description |-> IF importType = Null THEN "" ELSE "[" \o importType \o "]",
     checkboxState |-> "Unchecked", children |-> << >>]

\* the FileTreeItem made from a picked item
TreeItem(item) ==
    FileTreeItem(BaseName(item.filePath), item.filePath, item.relativePath,
                 item.absolutePath, item.importType)

\* the conversion of the picker's result: the file items, as FileTreeItems
ConvertResult(result) ==
    LET IsFile(it) == it.isFile
        files == SelectSeq(result, IsFile)
    IN  [i \in 1..Len(files) |-> TreeItem(files[i])]

\* ------------------------------------------ the tree of FileTreeDataProvider
\* new FileTreeItem(label, Expanded, false): a section or a folder of the tree
FolderTreeItem(label, children) ==
    [label |-> label, isFile |-> FALSE, filePath |-> NoFile, relativePath |-> "",
     absolutePath |-> "", importType |-> Null, description |-> Null,
     checkboxState |-> Null, children |-> children]

\* getAbsolutePath(file.fsPath).split('/') without its last part, the file name
FolderParts(f, workspaceRoot) ==
    LET rel == RelativeSegs(workspaceRoot, Segs(f))
    IN  SubSeq(rel, 1, Len(rel) - 1)

\* folderMap, a Map in insertion order: the entries [path, files], where
\* path is the key split at '/'
MapHas(m, k) == \E i \in DOMAIN m : m[i].path = k
MapSet(m, k) == Append(m, [path |-> k, files |-> << >>])
MapPush(m, k, f) ==
    [i \in DOMAIN m |-> IF m[i].path = k THEN [m[i] EXCEPT !.files = Append(@, f)] ELSE m[i]]

\* a plausible slip: the folder's entry is set anew for every file, which
\* drops the files filed under it before
AddFileToMapResets(m, f, workspaceRoot) ==
    LET parts == FolderParts(f, workspaceRoot)
        first == SubSeq(parts, 1, 1)
        m1 == IF parts # << >> /\ ~MapHas(m, first) THEN MapSet(m, first) ELSE m
        m2 == IF ~MapHas(m1, parts) THEN MapSet(m1, parts)
              ELSE [i \in DOMAIN m1 |-> IF m1[i].path = parts
                                        THEN [m1[i] EXCEPT !.files = << >>] ELSE m1[i]]
    IN  MapPush(m2, parts, f)

\* one turn of the loop of addFilesToTree: the walk down the parts puts only
\* the first part into folderMap itself (the later ones go into the nested
\* maps, which nothing reads), then the file is filed under its folder path
AddFileToMap(m, f, workspaceRoot) ==
    LET parts == FolderParts(f, workspaceRoot)
        first == SubSeq(parts, 1, 1)
        m1 == IF parts # << >> /\ ~MapHas(m, first) THEN MapSet(m, first) ELSE m
        m2 == IF ~MapHas(m1, parts) THEN MapSet(m1, parts) ELSE m1
    IN  MapPush(m2, parts, f)

RECURSIVE FolderMap(_, _)
\* folderMap after the loop over the files
FolderMap(files, workspaceRoot) ==
    IF files = << >> THEN << >>
    ELSE AddFileToMap(FolderMap(SubSeq(files, 1, Len(files) - 1), workspaceRoot),
                      files[Len(files)], workspaceRoot)

RECURSIVE FilesOfEntries(_)
\* filesAtCurrentLevel.push(...data.files) over the entries, in order
FilesOfEntries(entries) ==
    IF entries = << >> THEN << >> ELSE Head(entries).files \o FilesOfEntries(Tail(entries))

RECURSIVE buildFolderTree(_, _, _, _, _, _)
\* buildFolderTree: the children pushed to the item of currentPath - the
\* folders below it, sorted, each with its own children, then the files
\* filed under currentPath, in the order they came, once per import type
buildFolderTree(currentPath, folderMap, importTypes, targetDir, workspaceRoot, platform) ==
    LET n == Len(currentPath)
        Below(e) == Len(e.path) > n /\ SubSeq(e.path, 1, n) = currentPath
        Here(e) == e.path = currentPath
        below == SelectSeq(folderMap, Below)
        folders == Dedup([i \in 1..Len(below) |-> below[i].path[n + 1]])
        filesAtCurrentLevel == FilesOfEntries(SelectSeq(folderMap, Here))
        sortedFolders == SortFolders(folders)
        folderItems ==
            [i \in 1..Len(sortedFolders) |->
                FolderTreeItem(sortedFolders[i],
                               buildFolderTree(Append(currentPath, sortedFolders[i]),
                                               folderMap, importTypes, targetDir,
                                               workspaceRoot, platform))]
        nTypes == Len(importTypes)
        fileItems ==
            [k \in 1..(Len(filesAtCurrentLevel) * nTypes) |->
                LET f == filesAtCurrentLevel[((k - 1) \div nTypes) + 1]
                IN  FileTreeItem(BaseName(f), f,
                                 getRelativePath(targetDir, f, platform),
                                 getAbsolutePath(workspaceRoot, f, platform),
                                 importTypes[((k - 1) % nTypes) + 1])]
    IN  folderItems \o fileItems

\* addFilesToTree: the children of a section
addFilesToTree(files, importTypes, targetDir, workspaceRoot, platform) ==
    buildFolderTree(<< >>, FolderMap(files, workspaceRoot), importTypes,
                    targetDir, workspaceRoot, platform)

\* buildTree: rootItems, a section for the .py files and one for the
\* .resource files, each only when it has files
buildTree(pyFiles, resourceFiles, targetDir, workspaceRoot, platform) ==
    (IF pyFiles # << >>
     THEN <<FolderTreeItem("Python Files (.py) - Library/Variables",
                           addFilesToTree(pyFiles, PyTypes, targetDir,
                                          workspaceRoot, platform))>>
     ELSE << >>)
    \o (IF resourceFiles # << >>
        THEN <<FolderTreeItem("Resource Files (.resource) - Resource/Variables",
                              addFilesToTree(resourceFiles, ResTypes, targetDir,
                                             workspaceRoot, platform))>>
        ELSE << >>)

\* new FileTreeDataProvider(pyFiles, resourceFiles, targetDir, workspaceRoot)
NewFileTreeDataProvider(pyFiles, resourceFiles, targetDir, workspaceRoot, platform) ==
    [rootItems |-> buildTree(pyFiles, resourceFiles, targetDir, workspaceRoot, platform),
     checkedItems |-> << >>]

\* getCheckedItems: Array.from(this.checkedItems), in the order of insertion
getCheckedItems(provider) == provider.checkedItems

\* toggleCheck: checkedItems.add(item) or checkedItems.delete(item)
toggleCheck(provider, item, checked) ==
    LET Other(it) == it # item
    IN  IF checked
        THEN IF item \in Range(provider.checkedItems) THEN provider
             ELSE [provider EXCEPT !.checkedItems = Append(@, item)]
        ELSE [provider EXCEPT !.checkedItems = SelectSeq(@, Other)]

RECURSIVE OnDidChangeCheckboxStateAnyItem(_, _)
\* a plausible slip: the handler does not look at item.isFile
OnDidChangeCheckboxStateAnyItem(current, changes) ==
    IF changes = << >> THEN current
    ELSE LET c == Head(changes)
             next == IF current # << >>
                     THEN <<toggleCheck(current[1], c.item, c.state = "Checked")>>
                     ELSE current
         IN  OnDidChangeCheckboxStateAnyItem(next, Tail(changes))

RECURSIVE OnDidChangeCheckboxState(_, _)
\* the handler of treeView.onDidChangeCheckboxState over e.items:
\* if (item.isFile) currentTreeProvider?.toggleCheck(item, state === Checked)
OnDidChangeCheckboxState(current, changes) ==
    IF changes = << >> THEN current
    ELSE LET c == Head(changes)
             next == IF c.item.isFile /\ current # << >>
                     THEN <<toggleCheck(current[1], c.item, c.state = "Checked")>>
                     ELSE current
         IN  OnDidChangeCheckboxState(next, Tail(changes))

RECURSIVE TreeLeaves(_)
\* the file items of a tree, in the order getChildren shows them
TreeLeaves(items) ==
    IF items = << >> THEN << >>
    ELSE (IF Head(items).isFile THEN <<Head(items)>> ELSE TreeLeaves(Head(items).children))
         \o TreeLeaves(Tail(items))

\* ---------------------------------------------------------------- renderer
PathTypes == {"relative", "absolute"}

\* a plausible slip: the paths of one import type are collected in a Set, so
\* a path given twice is kept once
PathsOfDistinct(selectedImports, pathType, importType) ==
    LET Is(it) == it.isFile /\ it.importType = importType
        sel == SelectSeq(selectedImports, Is)
    IN  Dedup([i \in 1..Len(sel) |->
                 IF pathType = "relative" THEN sel[i].relativePath
                 ELSE sel[i].absolutePath])

\* the paths of the file items of one import type, in the order given
PathsOf(selectedImports, pathType, importType) ==
    LET Is(it) == it.isFile /\ it.importType = importType
        sel == SelectSeq(selectedImports, Is)
    IN  [i \in 1..Len(sel) |->
            IF pathType = "relative" THEN sel[i].relativePath ELSE sel[i].absolutePath]

\* the lines `<keyword>    <path>\n` of a sequence of paths
Lines(keyword, paths) == [i \in 1..Len(paths) |-> keyword \o "    " \o paths[i] \o "\n"]

\* a plausible slip: the groups are emitted in the order Resource, Library, Variables
SettingsLinesSwapped(selectedImports, pathType) ==
    Lines("Resource", PathsOf(selectedImports, pathType, "Resource"))
    \o Lines("Library", PathsOf(selectedImports, pathType, "Library"))
    \o Lines("Variables", PathsOf(selectedImports, pathType, "Variables"))

\* the import lines of the settings section: libraries, resources, variables
SettingsLines(selectedImports, pathType) ==
    Lines("Library", PathsOf(selectedImports, pathType, "Library"))
    \o Lines("Resource", PathsOf(selectedImports, pathType, "Resource"))
    \o Lines("Variables", PathsOf(selectedImports, pathType, "Variables"))

\* generateSettingsSection: the header line and the import lines
generateSettingsSection(selectedImports, pathType) ==
    "*** Settings ***\n" \o Concat(SettingsLines(selectedImports, pathType))

\* the body written: `${settingsSection}\n\n${mainSection}\n`
Template(settingsSection, mainSection) == settingsSection \o "\n\n" \o mainSection \o "\n"

\* ------------------------------------------------------------ the universe
Procs == {1}

\* the workspace folder, and the folder a command can be invoked on
WsRoot   == <<"ws">>
TestsDir == <<"ws", "Tests">>
NoUri    == <<"<no uri>">>
Uris     == {NoUri, TestsDir}

\* the files that may be on disk when a command starts
LocatorsPy     == File(<<"ws", "Library">>, "locators", ".py")
CommonResource == File(<<"ws">>, "common", ".resource")
ARobot         == File(<<"ws", "Tests">>, "a", ".robot")
UniverseFiles  == {LocatorsPy, CommonResource, ARobot}
\* the content of a file that was on disk before the command
OldContent == "old content\n"

\* the values typed into the input box
TypedNames ==
    { << >>, <<" ">>, <<"a">>, <<"a", "/", "b">>, <<"m", "y", " ", "f">>,
      <<"c", "o", "m", "m", "o", "n">> }

Commands == {"test", "resource", "variables", "locators"}
Builds   == {"imports", "simple"}

\* the errors writeFileSync throws, and what openTextDocument or
\* showTextDocument may reject with (an Error, or a value that is no Error)
Thrown(isError, message) == [isError |-> isError, message |-> message]
EACCES == Thrown(TRUE, "EACCES: permission denied")
ENOSPC == Thrown(TRUE, "ENOSPC: no space left on device")
WriteErrors == {EACCES, ENOSPC}
OpenErrors  == {Thrown(TRUE, "cannot open file"), Thrown(FALSE, "")}
Ok == Thrown(FALSE, "<ok>")

\* ------------------------------------------------------------------- state
VARIABLES
    fs,                \* the files on disk: file |-> content
    workspaceFolders,  \* vscode.workspace.workspaceFolders, a sequence of roots
    platform,          \* the platform of the path module
    build,             \* which build of the extension is active
    inv,               \* inv[p]: the locals of invocation p of a command handler
    render,            \* the renderer's input and output (SpecRender)
    tree,              \* the grouping's input and output (SpecTree), and
                       \* what the tree view was last asked to do (SpecChecks)
    currentTreeProvider,  \* module level: << >> while undefined, or <<provider>>
    resolveSelection,     \* module level: << >> while undefined, or <<p>>, the
                          \* resolve function of the promise invocation p awaits
    showImportSelector    \* the context key rfFilesCreator.showImportSelector

\* the module level state of the tree view
globals == <<currentTreeProvider, resolveSelection, showImportSelector>>

vars == <<fs, workspaceFolders, platform, build, inv, render, tree,
          currentTreeProvider, resolveSelection, showImportSelector>>

\* ----------------------------------------------------- command registrations
\* the handler a command is registered with
HandlerOf(b, command) ==
    IF b = "imports" /\ command # "locators"
    THEN "createRobotFileWithImports" ELSE "createRobotFile"

FileTypeOf(command) == command

ExtensionOf(command) ==
    CASE command = "test"      -> ".robot"
      [] command = "resource"  -> ".resource"
      [] command = "variables" -> ".resource"
      [] command = "locators"  -> ".py"

\* the mainSection argument of createRobotFileWithImports
MainSectionOf(command) ==
    CASE command = "test"      -> "*** Test Cases ***"
      [] command = "resource"  -> "*** Keywords ***"
      [] command = "variables" -> "*** Variables ***"
      [] command = "locators"  -> ""

\* the template argument of createRobotFile
TemplateOf(command) ==
    CASE command = "test"      -> "*** Settings ***\n\n\n*** Test Cases ***\n"
      [] command = "resource"  -> "*** Settings ***\n\n\n*** Keywords ***\n"
      [] command = "variables" -> "*** Settings ***\n\n\n*** Variables ***\n"
      [] command = "locators"  -> ""

\* ----------------------------------------------------------- notifications
Note(kind, text) == [kind |-> kind, text |-> text]
NoWorkspaceNote == Note("error", "No workspace folder open. Please open a folder first.")
\* error instanceof Error ? error.message : 'Unknown error'
ErrorMessage(e) == IF e.isError THEN e.message ELSE "Unknown error"
FailedNote(e) == Note("error", "Failed to create file: " \o ErrorMessage(e))
CreatedNote(r) ==
    Note("info", "Created Robot Framework " \o r.fileType \o " file: " \o BaseName(r.filePath))

\* -------------------------------------------------------------- invocations
\* the locals of a handler before it is invoked
Idle ==
    [pc |-> "idle", command |-> Null, handler |-> Null, fileType |-> Null,
     uri |-> NoUri, targetDir |-> << >>, workspaceRoot |-> << >>,
     inputValue |-> << >>, inputMsg |-> Null, filePath |-> NoFile,
     existed |-> FALSE, overwrite |-> Null,
     pyFiles |-> << >>, resourceFiles |-> << >>, selectedPathType |-> "relative",
     items |-> << >>, picker |-> "none", settled |-> FALSE, result |-> << >>,
     selectedImports |-> << >>,
     \* what the invocation has done so far, and what the user answered
     rejectedOnce |-> FALSE, pathChoice |-> "<pending>", pickerEnd |-> Null,
     notes |-> << >>, writes |-> << >>, scans |-> 0, scanFailed |-> FALSE,
     namePrompts |-> 0, overwritePrompts |-> 0, pathPrompts |-> 0, pickers |-> 0,
     opens |-> 0, shows |-> 0]

\* one call of fs.writeFileSync
WriteCall(path, body, outcome) == [path |-> path, body |-> body, outcome |-> outcome]

\* the disk after writeFileSync(path, body): written, left alone when the
\* file could not be opened, or left truncated when the device is full
WriteFile(disk, w) ==
    IF w.outcome = Ok
    THEN [f \in DOMAIN disk \cup {w.path} |-> IF f = w.path THEN w.body ELSE disk[f]]
    ELSE IF w.outcome = ENOSPC
    THEN [f \in DOMAIN disk \cup {w.path} |-> IF f = w.path THEN "" ELSE disk[f]]
    ELSE disk

\* the disk after a step that took the locals from r to r2
DiskAfter(disk, r, r2) ==
    IF Len(r2.writes) > Len(r.writes) THEN WriteFile(disk, r2.writes[Len(r2.writes)]) ELSE disk

\* a plausible slip: the write is tried again after it failed
TryWriteRetrying(r, body, outcome) ==
    IF outcome = Ok
    THEN [r EXCEPT !.writes = Append(@, WriteCall(r.filePath, body, outcome)),
                   !.opens = @ + 1, !.pc = "open"]
    ELSE [r EXCEPT !.writes = Append(Append(@, WriteCall(r.filePath, body, outcome)),
                                     WriteCall(r.filePath, body, outcome)),
                   !.notes = Append(@, FailedNote(outcome)), !.pc = "done"]

\* try { fs.writeFileSync(filePath, body); openTextDocument(filePath) ... }
\* catch (error) { showErrorMessage(...) }: up to the first await
TryWrite(r, body, outcome) ==
    IF outcome = Ok
    THEN [r EXCEPT !.writes = Append(@, WriteCall(r.filePath, body, outcome)),
                   !.opens = @ + 1, !.pc = "open"]
    ELSE [r EXCEPT !.writes = Append(@, WriteCall(r.filePath, body, outcome)),
                   !.notes = Append(@, FailedNote(outcome)), !.pc = "done"]

\* --------------------------------------------------------------- the scan
\* the files vscode.workspace.findFiles('**/*<ext>', '**/node_modules/**')
\* finds: those of the workspace folder with the extension, none below a
\* node_modules folder
Matching(disk, roots, ext) ==
    { f \in DOMAIN disk :
        /\ f.ext = ext
        /\ \E i \in 1..Len(roots) :
              Len(f.dir) >= Len(roots[i]) /\ SubSeq(f.dir, 1, Len(roots[i])) = roots[i]
        /\ "node_modules" \notin Range(f.dir) }

\* the orders in which a search may return a set of files
Orders(S) == { s \in [1..Cardinality(S) -> S] : \A i, j \in DOMAIN s : s[i] = s[j] => i = j }

\* ------------------------------------------------------- steps of a handler
\* a plausible slip: the workspace is looked for only when no folder is given
EnterWithImportsUriFirst(r, roots) ==
    IF r.uri # NoUri
    THEN [r EXCEPT !.targetDir = r.uri, !.pc = "name", !.namePrompts = @ + 1,
                   !.inputMsg = validateInput(<< >>)]
    ELSE IF roots = << >>
    THEN [r EXCEPT !.notes = Append(@, NoWorkspaceNote), !.pc = "done"]
    ELSE [r EXCEPT !.workspaceRoot = roots[1], !.targetDir = roots[1],
                   !.pc = "name", !.namePrompts = @ + 1,
                   !.inputMsg = validateInput(<< >>)]

\* createRobotFileWithImports up to its first await (the input box)
EnterWithImports(r, roots) ==
    IF roots = << >>
    THEN [r EXCEPT !.notes = Append(@, NoWorkspaceNote), !.pc = "done"]
    ELSE [r EXCEPT !.workspaceRoot = roots[1],
                   !.targetDir = IF r.uri # NoUri THEN r.uri ELSE roots[1],
                   !.pc = "name", !.namePrompts = @ + 1,
                   !.inputMsg = validateInput(<< >>)]

\* createRobotFile up to its first await (the input box)
EnterSimple(r, roots) ==
    IF r.uri # NoUri
    THEN [r EXCEPT !.targetDir = r.uri, !.pc = "name", !.namePrompts = @ + 1,
                   !.inputMsg = validateInput(<< >>)]
    ELSE IF roots # << >>
    THEN [r EXCEPT !.targetDir = roots[1], !.pc = "name", !.namePrompts = @ + 1,
                   !.inputMsg = validateInput(<< >>)]
    ELSE [r EXCEPT !.notes = Append(@, NoWorkspaceNote), !.pc = "done"]

\* the import-free body written when the path style prompt is dismissed
ImportFreeTemplate(mainSection) == "*** Settings ***\n\n\n" \o mainSection \o "\n"

\* after the destination was found free, or the user answered 'Yes':
\* createRobotFileWithImports starts the scan, createRobotFile writes
AfterExistsCheck(r, outcome) ==
    IF r.handler = "createRobotFileWithImports"
    THEN [r EXCEPT !.pc = "scanPy", !.scans = @ + 1]
    ELSE TryWrite(r, TemplateOf(r.command), outcome)

\* from the value of the input box to the overwrite prompt, the scan or
\* the write
AfterInput(r, disk, outcome) ==
    IF r.inputValue = << >> THEN [r EXCEPT !.pc = "done"]
    ELSE LET r1 == [r EXCEPT !.filePath = File(r.targetDir, Concat(r.inputValue),
                                               ExtensionOf(r.command))]
         IN  IF r1.filePath \in DOMAIN disk
             THEN [r1 EXCEPT !.existed = TRUE, !.pc = "overwrite",
                             !.overwritePrompts = @ + 1]
             ELSE AfterExistsCheck(r1, outcome)

\* a plausible slip: only an explicit 'No' stops the command
AfterOverwriteOnlyNo(r, answer, outcome) ==
    IF answer = "No" THEN [r EXCEPT !.overwrite = answer, !.pc = "done"]
    ELSE AfterExistsCheck([r EXCEPT !.overwrite = answer], outcome)

\* if (overwrite !== 'Yes') return;
AfterOverwrite(r, answer, outcome) ==
    IF answer # "Yes" THEN [r EXCEPT !.overwrite = answer, !.pc = "done"]
    ELSE AfterExistsCheck([r EXCEPT !.overwrite = answer], outcome)

\* the quick pick opened by showFileSelectionQuickPick
ShowPicker(r, plat) ==
    [r EXCEPT !.items = PickerItems(r.pyFiles, r.resourceFiles, r.targetDir,
                                    r.workspaceRoot, plat, r.selectedPathType),
              !.picker = "shown", !.pickers = @ + 1, !.pc = "picker"]

\* a plausible slip: the path style prompt is shown whatever the scan found
AfterScanAlwaysPrompt(r, files, outcome) ==
    [r EXCEPT !.resourceFiles = files, !.pc = "pathStyle", !.pathPrompts = @ + 1]

\* after both searches: with no candidate the file is written at once,
\* else the path style is asked for
AfterScan(r, files, outcome) ==
    LET r1 == [r EXCEPT !.resourceFiles = files]
    IN  IF Len(r1.pyFiles) > 0 \/ Len(r1.resourceFiles) > 0
        THEN [r1 EXCEPT !.pc = "pathStyle", !.pathPrompts = @ + 1]
        ELSE TryWrite(r1, Template(generateSettingsSection(r1.selectedImports,
                                                           r1.selectedPathType),
                                   MainSectionOf(r1.command)), outcome)

\* the labels of the two path styles
RelativeLabel == "$(file-symlink-directory) Relative Path"
AbsoluteLabel == "$(root-folder) Absolute Path (from workspace)"
PathStyleAnswers == {RelativeLabel, AbsoluteLabel, Null}

\* selectPathType: undefined when dismissed, else by the label picked
selectPathType(selected) ==
    IF selected = Null THEN Null
    ELSE IF selected = RelativeLabel THEN "relative" ELSE "absolute"

\* a plausible slip: dismissing the path style prompt ends the command
AfterPathTypeAbort(r, selected, plat, outcome) ==
    IF selectPathType(selected) = Null
    THEN [r EXCEPT !.pathChoice = selected, !.pc = "done"]
    ELSE ShowPicker([r EXCEPT !.pathChoice = selected,
                              !.selectedPathType = selectPathType(selected)], plat)

\* after the path style prompt: dismissed, the file is written without
\* imports; answered, the picker is shown
AfterPathType(r, selected, plat, outcome) ==
    IF selectPathType(selected) = Null
    THEN TryWrite([r EXCEPT !.pathChoice = selected],
                  ImportFreeTemplate(MainSectionOf(r.command)), outcome)
    ELSE ShowPicker([r EXCEPT !.pathChoice = selected,
                              !.selectedPathType = selectPathType(selected)], plat)

\* a plausible slip: a later call of resolve replaces the value
ResolveLastWins(r, value) == [r EXCEPT !.settled = TRUE, !.result = value]

\* resolve(value) of the picker's promise: the first call settles it
Resolve(r, value) ==
    IF r.settled THEN r ELSE [r EXCEPT !.settled = TRUE, !.result = value]

\* onDidAccept: resolve([...quickPick.selectedItems]); quickPick.hide()
OnAccept(r, selectedItems) ==
    [Resolve(r, selectedItems) EXCEPT !.picker = "hiding", !.pc = "picked",
                                      !.pickerEnd = "accepted"]

\* onDidHide: resolve([]); quickPick.dispose()
OnHide(r) ==
    [Resolve(r, << >>) EXCEPT !.picker = "disposed",
                              !.pc = IF r.pc = "picker" THEN "picked" ELSE r.pc]

\* a plausible slip: an empty result ends the command without a file
AfterPickerSkipEmpty(r, outcome) ==
    LET r1 == [r EXCEPT !.selectedImports = ConvertResult(r.result)]
    IN  IF r1.selectedImports = << >> THEN [r1 EXCEPT !.pc = "done"]
        ELSE TryWrite(r1, Template(generateSettingsSection(r1.selectedImports,
                                                           r1.selectedPathType),
                                   MainSectionOf(r1.command)), outcome)

\* after the picker's promise is settled: the result is converted, rendered
\* and written
AfterPicker(r, outcome) ==
    LET r1 == [r EXCEPT !.selectedImports = ConvertResult(r.result)]
    IN  TryWrite(r1, Template(generateSettingsSection(r1.selectedImports,
                                                      r1.selectedPathType),
                              MainSectionOf(r1.command)), outcome)

\* the sequences of distinct selectable items the user may have checked
Selections(items) ==
    LET fileIdx == { i \in DOMAIN items : items[i].isFile }
    IN  { [k \in DOMAIN s |-> items[s[k]]] :
            s \in { t \in UNION { [1..n -> fileIdx] : n \in 0..MaxSel } :
                      \A i, j \in DOMAIN t : t[i] = t[j] => i = j } }

\* ------------------------------------------------------------------ actions
WriteOutcomes == {Ok} \cup WriteErrors

\* a step of invocation p from its locals to r2, with the write it made
Step(p, r2) ==
    /\ inv' = [inv EXCEPT ![p] = r2]
    /\ fs' = DiskAfter(fs, inv[p], r2)
    /\ UNCHANGED <<workspaceFolders, platform, build, render, tree, globals>>

\* the user runs a command, on a folder or with no folder
Invoke(p, command, uri) ==
    /\ inv[p].pc = "idle"
    /\ LET r == [Idle EXCEPT !.command = command,
                             !.handler = HandlerOf(build, command),
                             !.fileType = FileTypeOf(command), !.uri = uri]
       IN  Step(p, IF r.handler = "createRobotFileWithImports"
                   THEN EnterWithImports(r, workspaceFolders)
                   ELSE EnterSimple(r, workspaceFolders))

\* the user types a value: the input box shows what validateInput returns
TypeValue(p, value) ==
    /\ inv[p].pc = "name"
    /\ Step(p, [inv[p] EXCEPT !.inputValue = value, !.inputMsg = validateInput(value),
                               !.rejectedOnce = @ \/ validateInput(value) # Null])

\* the user presses Enter: the input box closes with a value validateInput
\* accepts, and no other
AcceptInput(p, outcome) ==
    /\ inv[p].pc = "name"
    /\ inv[p].inputMsg = Null
    /\ Step(p, AfterInput(inv[p], fs, outcome))

\* the user dismisses the input box: showInputBox gives undefined
CancelInput(p) ==
    /\ inv[p].pc = "name"
    /\ Step(p, [inv[p] EXCEPT !.pc = "done"])

\* the user answers the overwrite prompt, or dismisses it (Null)
AnswerOverwrite(p, answer, outcome) ==
    /\ inv[p].pc = "overwrite"
    /\ Step(p, AfterOverwrite(inv[p], answer, outcome))

\* findFiles('**/*.py') resolves; the search for .resource files starts
ScanPyDone(p, files) ==
    /\ inv[p].pc = "scanPy"
    /\ Step(p, [inv[p] EXCEPT !.pyFiles = files, !.pc = "scanRes", !.scans = @ + 1])

\* findFiles('**/*.resource') resolves
ScanResDone(p, files, outcome) ==
    /\ inv[p].pc = "scanRes"
    /\ Step(p, AfterScan(inv[p], files, outcome))

\* a search rejects: nothing catches it and the handler's promise rejects
ScanFail(p) ==
    /\ inv[p].pc \in {"scanPy", "scanRes"}
    /\ Step(p, [inv[p] EXCEPT !.scanFailed = TRUE, !.pc = "rejected"])

\* the user answers the path style prompt, or dismisses it (Null)
AnswerPathType(p, selected, outcome) ==
    /\ inv[p].pc = "pathStyle"
    /\ Step(p, AfterPathType(inv[p], selected, platform, outcome))

\* the user presses Enter in the picker with some items checked: onDidAccept
\* runs, and the handler goes on with the result before any other event
AcceptPicker(p, selectedItems, outcome) ==
    /\ inv[p].pc = "picker"
    /\ inv[p].picker = "shown"
    /\ Step(p, AfterPicker(OnAccept(inv[p], selectedItems), outcome))

\* the user dismisses the picker: the host hides it, onDidHide runs, and the
\* handler goes on with the result before any other event
DismissPicker(p, outcome) ==
    /\ inv[p].pc = "picker"
    /\ inv[p].picker = "shown"
    /\ Step(p, AfterPicker(OnHide([inv[p] EXCEPT !.pickerEnd = "dismissed"]), outcome))

\* the hide event that follows quickPick.hide(), some time after the accept
HideAfterAccept(p) ==
    /\ inv[p].picker = "hiding"
    /\ Step(p, OnHide(inv[p]))

\* openTextDocument resolves: showTextDocument is called
OpenDone(p) ==
    /\ inv[p].pc = "open"
    /\ Step(p, [inv[p] EXCEPT !.shows = @ + 1, !.pc = "show"])

\* openTextDocument rejects: the catch block reports it
OpenFail(p, e) ==
    /\ inv[p].pc = "open"
    /\ Step(p, [inv[p] EXCEPT !.notes = Append(@, FailedNote(e)), !.pc = "done"])

\* showTextDocument resolves: the success notification is shown
ShowDone(p) ==
    /\ inv[p].pc = "show"
    /\ Step(p, [inv[p] EXCEPT !.notes = Append(@, CreatedNote(inv[p])), !.pc = "done"])

\* showTextDocument rejects: the catch block reports it
ShowFail(p, e) ==
    /\ inv[p].pc = "show"
    /\ Step(p, [inv[p] EXCEPT !.notes = Append(@, FailedNote(e)), !.pc = "done"])

\* ----------------------------------------------------------- specification
RenderIdle == [phase |-> "off"]
\* the module level state after activate: nothing assigns the three
\* variables, and the context key has not been set
NoTreeView ==
    /\ currentTreeProvider = << >>
    /\ resolveSelection = << >>
    /\ showImportSelector = Null
TreeIdle == [phase |-> "off"]

\* any set of the universe's files may be on disk, a workspace folder may
\* be open or not, and either build may be the active one
Init ==
    /\ fs \in { [f \in S |-> OldContent] : S \in SUBSET UniverseFiles }
    /\ workspaceFolders \in {<< >>, <<WsRoot>>}
    /\ platform = "posix"
    /\ build \in Builds
    /\ inv = [p \in Procs |-> Idle]
    /\ render = RenderIdle
    /\ tree = TreeIdle
    /\ NoTreeView

Next ==
    \/ \E p \in Procs, c \in Commands, u \in Uris : Invoke(p, c, u)
    \/ \E p \in Procs, v \in TypedNames : TypeValue(p, v)
    \/ \E p \in Procs, o \in WriteOutcomes : AcceptInput(p, o)
    \/ \E p \in Procs : CancelInput(p)
    \/ \E p \in Procs, a \in {"Yes", "No", Null}, o \in WriteOutcomes : AnswerOverwrite(p, a, o)
    \/ \E p \in Procs : \E files \in Orders(Matching(fs, workspaceFolders, ".py")) :
          ScanPyDone(p, files)
    \/ \E p \in Procs, o \in WriteOutcomes :
          \E files \in Orders(Matching(fs, workspaceFolders, ".resource")) :
             ScanResDone(p, files, o)
    \/ \E p \in Procs : ScanFail(p)
    \/ \E p \in Procs, a \in PathStyleAnswers, o \in WriteOutcomes : AnswerPathType(p, a, o)
    \/ \E p \in Procs, o \in WriteOutcomes :
          \E sel \in Selections(inv[p].items) : AcceptPicker(p, sel, o)
    \/ \E p \in Procs, o \in WriteOutcomes : DismissPicker(p, o)
    \/ \E p \in Procs : HideAfterAccept(p)
    \/ \E p \in Procs : OpenDone(p)
    \/ \E p \in Procs, e \in OpenErrors : OpenFail(p, e)
    \/ \E p \in Procs : ShowDone(p)
    \/ \E p \in Procs, e \in OpenErrors : ShowFail(p, e)

Spec == Init /\ [][Next]_vars

\* --------------------------------------------- the validator on every name
\* one character of each kind the pattern tells apart
ValidateAlphabet == {"a", "Z", "2", "_", "-", " ", "/", "."}
NamesUpTo(n) == UNION { [1..k -> ValidateAlphabet] : k \in 0..n }
MyFile   == <<"m", "y", " ", "f", "i", "l", "e">>
ASlashB  == <<"a", "/", "b">>
MyFile2  == <<"m", "y", "_", "f", "i", "l", "e", "-", "2">>
ValidateNames == NamesUpTo(MaxNameLen) \cup {MyFile, ASlashB, MyFile2}

\* the test command on the Tests folder of an open workspace that holds
\* one library candidate
InitValidate ==
    /\ fs = [f \in {LocatorsPy} |-> OldContent]
    /\ workspaceFolders = <<WsRoot>>
    /\ platform = "posix"
    /\ build \in Builds
    /\ inv = [p \in Procs |-> Idle]
    /\ render = RenderIdle
    /\ tree = TreeIdle
    /\ NoTreeView

NextValidate ==
    \/ \E p \in Procs : Invoke(p, "test", TestsDir)
    \/ \E p \in Procs, v \in ValidateNames : TypeValue(p, v)
    \/ \E p \in Procs, o \in WriteOutcomes : AcceptInput(p, o)
    \/ \E p \in Procs : CancelInput(p)
    \/ \E p \in Procs : \E files \in Orders(Matching(fs, workspaceFolders, ".py")) :
          ScanPyDone(p, files)
    \/ \E p \in Procs, o \in WriteOutcomes :
          \E files \in Orders(Matching(fs, workspaceFolders, ".resource")) :
             ScanResDone(p, files, o)
    \/ \E p \in Procs, a \in PathStyleAnswers, o \in WriteOutcomes : AnswerPathType(p, a, o)
    \/ \E p \in Procs, o \in WriteOutcomes :
          \E sel \in Selections(inv[p].items) : AcceptPicker(p, sel, o)
    \/ \E p \in Procs, o \in WriteOutcomes : DismissPicker(p, o)
    \/ \E p \in Procs : HideAfterAccept(p)
    \/ \E p \in Procs : OpenDone(p)
    \/ \E p \in Procs : ShowDone(p)

SpecValidate == InitValidate /\ [][NextValidate]_vars

\* ------------------------------------------------ the renderer on its own
RenderDirs  == {WsRoot, TestsDir, <<"ws", "Tests", "sub">>, <<"ws", "Library">>}
RenderFiles == {LocatorsPy, CommonResource}
ImportTypes == {"Library", "Resource", "Variables"}

\* the FileTreeItems the renderer may be given: every file under every
\* import type, a file item with no import type, and a folder item
RenderItems(targetDir, plat) ==
    { FileTreeItem(BaseName(f), f, getRelativePath(targetDir, f, plat),
                   getAbsolutePath(WsRoot, f, plat), t) :
        f \in RenderFiles, t \in ImportTypes \cup {Null} }
    \cup { [label |-> "Library", isFile |-> FALSE, filePath |-> NoFile,
            relativePath |-> "", absolutePath |-> "", importType |-> Null,
            description |-> "", checkboxState |-> "None", children |-> << >>] }

SeqsUpTo(S, n) == UNION { [1..k -> S] : k \in 0..n }

InitRender ==
    /\ fs = << >>
    /\ workspaceFolders = <<WsRoot>>
    /\ platform \in Platforms
    /\ build = "imports"
    /\ inv = [p \in Procs |-> Idle]
    /\ tree = TreeIdle
    /\ NoTreeView
    /\ \E d \in RenderDirs, pt \in PathTypes :
         \E sel \in SeqsUpTo(RenderItems(d, platform), MaxRender) :
            render = [phase |-> "input", targetDir |-> d, selectedImports |-> sel,
                      pathType |-> pt, lines |-> << >>, text |-> ""]

\* generateSettingsSection is applied to the input
Render ==
    /\ render.phase = "input"
    /\ render' = [render EXCEPT
                    !.phase = "output",
                    !.lines = SettingsLines(render.selectedImports, render.pathType),
                    !.text = generateSettingsSection(render.selectedImports,
                                                     render.pathType)]
    /\ UNCHANGED <<fs, workspaceFolders, platform, build, inv, tree, globals>>

NextRender == Render

SpecRender == InitRender /\ [][NextRender]_vars

\* ------------------------------------------------ the grouping on its own
LibraryDir == <<"ws", "Library">>
\* library candidates in the workspace root, in two sibling folders and in a
\* folder of a folder; two of them differ in the case of the first letter
TreePyFiles ==
    {File(WsRoot, "a", ".py"), File(LibraryDir, "a", ".py"), File(LibraryDir, "B", ".py"),
     File(<<"ws", "Library", "sub">>, "a", ".py"), File(TestsDir, "a", ".py")}
\* resource candidates in the workspace root and in a folder
TreeResourceFiles == {CommonResource, File(LibraryDir, "common", ".resource")}

\* the results a search may give: at most n of the files, in any order
ScanResults(S, n) == UNION { Orders(T) : T \in { U \in SUBSET S : Cardinality(U) <= n } }

\* no provider yet
NoProvider == [rootItems |-> << >>, checkedItems |-> << >>]

InitTree ==
    /\ fs = << >>
    /\ workspaceFolders = <<WsRoot>>
    /\ platform \in Platforms
    /\ build = "imports"
    /\ inv = [p \in Procs |-> Idle]
    /\ render = RenderIdle
    /\ NoTreeView
    /\ \E py \in ScanResults(TreePyFiles, MaxTree),
          res \in ScanResults(TreeResourceFiles, MaxTree) :
         tree = [phase |-> "input", pyFiles |-> py, resourceFiles |-> res,
                 targetDir |-> TestsDir, workspaceRoot |-> WsRoot,
                 built |-> FALSE, provider |-> NoProvider,
                 listed |-> FALSE, items |-> << >>]

\* a FileTreeDataProvider is constructed over the files
BuildTree ==
    /\ tree.phase = "input" /\ ~tree.built
    /\ tree' = [tree EXCEPT !.built = TRUE, !.provider =
                  NewFileTreeDataProvider(tree.pyFiles, tree.resourceFiles,
                                          tree.targetDir, tree.workspaceRoot, platform)]
    /\ UNCHANGED <<fs, workspaceFolders, platform, build, inv, render, globals>>

\* showFileSelectionQuickPick builds the items of the quick pick
BuildItems ==
    /\ tree.phase = "input" /\ ~tree.listed
    /\ tree' = [tree EXCEPT !.listed = TRUE, !.items =
                  PickerItems(tree.pyFiles, tree.resourceFiles, tree.targetDir,
                              tree.workspaceRoot, platform, "relative")]
    /\ UNCHANGED <<fs, workspaceFolders, platform, build, inv, render, globals>>

NextTree == BuildTree \/ BuildItems

SpecTree == InitTree /\ [][NextTree]_vars

\* ------------------------------------------- two invocations interleaved
\* Command handlers are async functions: an invocation runs until its next
\* await, and another command may be invoked before the awaited answer
\* arrives. Two invocations of the test command on the Tests folder, both
\* given the name 'a', take their steps in any order. The host shows one
\* quick input at a time; here a quick input (the input box, the path style
\* prompt, the picker) is shown only while no other is open.
RaceProcs == {1, 2}
RaceFiles == {ARobot, LocatorsPy}
RaceName == <<"a">>

\* the invocations whose quick input is open
QuickInputs == { p \in DOMAIN inv : inv[p].pc \in {"name", "pathStyle", "picker"} }
QuickInputExclusive == Cardinality(QuickInputs) <= 1

InitRace ==
    /\ fs \in { [f \in S |-> OldContent] : S \in SUBSET RaceFiles }
    /\ workspaceFolders = <<WsRoot>>
    /\ platform = "posix"
    /\ build \in Builds
    /\ inv = [p \in RaceProcs |-> Idle]
    /\ render = RenderIdle
    /\ tree = TreeIdle
    /\ NoTreeView

\* a step that leaves at most one quick input open
Exclusively(step) == step /\ QuickInputExclusive'

NextRace ==
    \/ \E p \in RaceProcs : Exclusively(Invoke(p, "test", TestsDir))
    \/ \E p \in RaceProcs : Exclusively(TypeValue(p, RaceName))
    \/ \E p \in RaceProcs : Exclusively(AcceptInput(p, Ok))
    \/ \E p \in RaceProcs : Exclusively(CancelInput(p))
    \/ \E p \in RaceProcs, a \in {"Yes", "No"} : Exclusively(AnswerOverwrite(p, a, Ok))
    \/ \E p \in RaceProcs : \E files \in Orders(Matching(fs, workspaceFolders, ".py")) :
          Exclusively(ScanPyDone(p, files))
    \/ \E p \in RaceProcs :
          \E files \in Orders(Matching(fs, workspaceFolders, ".resource")) :
             Exclusively(ScanResDone(p, files, Ok))
    \/ \E p \in RaceProcs, a \in PathStyleAnswers : Exclusively(AnswerPathType(p, a, Ok))
    \/ \E p \in RaceProcs :
          \E sel \in { t \in Selections(inv[p].items) : Len(t) <= 1 } :
             Exclusively(AcceptPicker(p, sel, Ok))
    \/ \E p \in RaceProcs : Exclusively(DismissPicker(p, Ok))
    \/ \E p \in RaceProcs : Exclusively(HideAfterAccept(p))
    \/ \E p \in RaceProcs : Exclusively(OpenDone(p))
    \/ \E p \in RaceProcs : Exclusively(ShowDone(p))

SpecRace == InitRace /\ [][NextRace]_vars

\* ------------------------------------------------- the tree view's handlers
RECURSIVE TreeItems(_)
\* every item of a tree: sections, folders and files
TreeItems(items) ==
    IF items = << >> THEN << >>
    ELSE <<Head(items)>> \o TreeItems(Head(items).children) \o TreeItems(Tail(items))

\* the items the tree view shows: getChildren gives [] while there is no provider
ShownItems ==
    IF currentTreeProvider = << >> THEN {}
    ELSE Range(TreeItems(currentTreeProvider[1].rootItems))

\* the user ticks or unticks the box of an item of the tree view
ChangeCheckboxState(item, state) ==
    /\ item \in ShownItems
    /\ currentTreeProvider' =
         OnDidChangeCheckboxState(currentTreeProvider, <<[item |-> item, state |-> state]>>)
    /\ tree' = [tree EXCEPT !.event = <<[item |-> item, state |-> state]>>]
    /\ UNCHANGED <<fs, workspaceFolders, platform, build, inv, render,
                   resolveSelection, showImportSelector>>

\* rfFilesCreator.confirmSelection: if (resolveSelection && currentTreeProvider)
\* the checked items are handed to the pending promise, resolveSelection is
\* cleared and the view is hidden
ConfirmSelection ==
    /\ tree.phase = "checks" /\ tree.commands < MaxCommands
    /\ tree' = [tree EXCEPT !.commands = @ + 1]
    /\ IF resolveSelection # << >> /\ currentTreeProvider # << >>
       THEN /\ inv' = [inv EXCEPT ![resolveSelection[1]] =
                          Resolve(@, getCheckedItems(currentTreeProvider[1]))]
            /\ resolveSelection' = << >>
            /\ showImportSelector' = "false"
       ELSE UNCHANGED <<inv, resolveSelection, showImportSelector>>
    /\ UNCHANGED <<fs, workspaceFolders, platform, build, render, currentTreeProvider>>

\* rfFilesCreator.skipSelection: if (resolveSelection) the pending promise is
\* given [], resolveSelection is cleared and the view is hidden
SkipSelection ==
    /\ tree.phase = "checks" /\ tree.commands < MaxCommands
    /\ tree' = [tree EXCEPT !.commands = @ + 1]
    /\ IF resolveSelection # << >>
       THEN /\ inv' = [inv EXCEPT ![resolveSelection[1]] = Resolve(@, << >>)]
            /\ resolveSelection' = << >>
            /\ showImportSelector' = "false"
       ELSE UNCHANGED <<inv, resolveSelection, showImportSelector>>
    /\ UNCHANGED <<fs, workspaceFolders, platform, build, render, currentTreeProvider>>

\* Nothing in extension.ts assigns currentTreeProvider. To check the tree
\* view's handlers and FileTreeDataProvider's checked set, this
\* specification starts with a provider over the candidate files installed,
\* as a session of the tree view would have it; resolveSelection stays
\* undefined, as in the program. The test command runs beside it.
InitChecks ==
    /\ fs = [f \in {LocatorsPy} |-> OldContent]
    /\ workspaceFolders = <<WsRoot>>
    /\ platform = "posix"
    /\ build = "imports"
    /\ inv = [p \in Procs |-> Idle]
    /\ render = RenderIdle
    /\ tree = [phase |-> "checks", event |-> << >>, commands |-> 0]
    /\ currentTreeProvider =
         <<NewFileTreeDataProvider(<<LocatorsPy>>, << >>, TestsDir, WsRoot, platform)>>
    /\ resolveSelection = << >>
    /\ showImportSelector = Null

NextChecks ==
    \/ \E p \in Procs : Invoke(p, "test", TestsDir)
    \/ \E p \in Procs : TypeValue(p, RaceName)
    \/ \E p \in Procs : AcceptInput(p, Ok)
    \/ \E p \in Procs : \E files \in Orders(Matching(fs, workspaceFolders, ".py")) :
          ScanPyDone(p, files)
    \/ \E p \in Procs :
          \E files \in Orders(Matching(fs, workspaceFolders, ".resource")) :
             ScanResDone(p, files, Ok)
    \/ \E p \in Procs, a \in PathStyleAnswers : AnswerPathType(p, a, Ok)
    \/ \E p \in Procs : \E sel \in Selections(inv[p].items) : AcceptPicker(p, sel, Ok)
    \/ \E p \in Procs : DismissPicker(p, Ok)
    \/ \E p \in Procs : HideAfterAccept(p)
    \/ \E p \in Procs : OpenDone(p)
    \/ \E p \in Procs : ShowDone(p)
    \/ \E item \in ShownItems, state \in {"Checked", "Unchecked"} :
          ChangeCheckboxState(item, state)
    \/ ConfirmSelection
    \/ SkipSelection

SpecChecks == InitChecks /\ [][NextChecks]_vars

\* =================================================================== claims
HasInfo(r)  == \E i \in DOMAIN r.notes : r.notes[i].kind = "info"
HasError(r) == \E i \in DOMAIN r.notes : r.notes[i].kind = "error"

\* the import-free body of each scaffold command, character by character
ExactBody(command) ==
    CASE command = "test"      -> "*** Settings ***\n\n\n*** Test Cases ***\n"
      [] command = "resource"  -> "*** Settings ***\n\n\n*** Keywords ***\n"
      [] command = "variables" -> "*** Settings ***\n\n\n*** Variables ***\n"
      [] OTHER                 -> ""

\* both searches of the invocation have resolved, and found nothing
ScanFoundNothing(r) ==
    /\ r.handler = "createRobotFileWithImports"
    /\ r.scans = 2 /\ r.pc \notin {"scanRes", "rejected"}
    /\ r.pyFiles = << >> /\ r.resourceFiles = << >>

\* C1: when the scan returns no .py and no .resource file, the test, resource
\* and variables commands show neither the path style prompt nor the picker,
\* and the body they write is exactly '*** Settings ***\n\n\n<main section
\* header>\n'.  (The build without import selection never scans; its body is
\* the same text.)
C1_ZeroCandidatesExactBody ==
    \A p \in Procs :
      LET r == inv[p]
      IN  /\ ScanFoundNothing(r) =>
               /\ r.pathPrompts = 0 /\ r.pickers = 0
               /\ Len(r.writes) = 1
               /\ r.writes[1].path = r.filePath
               /\ r.writes[1].body = ExactBody(r.command)
               /\ r.writes[1].outcome = Ok => fs[r.filePath] = ExactBody(r.command)
          /\ (r.handler = "createRobotFile" /\ r.command # "locators" /\ r.writes # << >>) =>
               /\ r.pathPrompts = 0 /\ r.pickers = 0 /\ r.scans = 0
               /\ r.writes[1].body = ExactBody(r.command)

\* C1 witness: a test file was created after a scan that found nothing
C1_Witness ==
    \E p \in Procs :
      /\ ScanFoundNothing(inv[p]) /\ inv[p].command = "test" /\ inv[p].pc = "done"
      /\ inv[p].filePath \in DOMAIN fs
      /\ fs[inv[p].filePath] = "*** Settings ***\n\n\n*** Test Cases ***\n"
      /\ HasInfo(inv[p])

\* C4: if the destination exists and the user answers the overwrite prompt
\* with anything but 'Yes' (or dismisses it), the command ends with no side
\* effect: no write, no scan, no path style prompt, no picker, no
\* notification, and the file keeps its content.
C4_DeclinedOverwriteNoEffect ==
    \A p \in Procs :
      LET r == inv[p]
      IN  (r.overwritePrompts = 1 /\ r.pc # "overwrite" /\ r.overwrite # "Yes") =>
            /\ r.pc = "done"
            /\ r.writes = << >> /\ r.scans = 0 /\ r.pathPrompts = 0 /\ r.pickers = 0
            /\ r.notes = << >> /\ r.opens = 0 /\ r.shows = 0
            /\ r.filePath \in DOMAIN fs /\ fs[r.filePath] = OldContent

\* C4 witness: the overwrite prompt of createRobotFileWithImports was dismissed
C4_Witness ==
    \E p \in Procs :
      /\ inv[p].overwritePrompts = 1 /\ inv[p].pc = "done" /\ inv[p].overwrite = Null
      /\ inv[p].handler = "createRobotFileWithImports"
      /\ inv[p].filePath = ARobot

\* C5: if candidates exist and the user dismisses the path style prompt, the
\* picker is never shown and the file is still created: the body written is
\* the import-free body, the same bytes as with no candidate, and when
\* neither the write nor the opening of the document fails the file holds it
\* and the success notification is shown.
C5_PathStyleDismissedStillCreates ==
    \A p \in Procs :
      LET r == inv[p]
      IN  (r.pathChoice = Null) =>
            /\ Len(r.pyFiles) + Len(r.resourceFiles) > 0
            /\ r.pickers = 0 /\ r.picker = "none"
            /\ Len(r.writes) = 1
            /\ r.writes[1].path = r.filePath
            /\ r.writes[1].body = ExactBody(r.command)
            /\ r.writes[1].body = Template(generateSettingsSection(<< >>, "relative"),
                                           MainSectionOf(r.command))
            /\ r.writes[1].outcome = Ok => fs[r.filePath] = ExactBody(r.command)
            /\ (r.pc = "done" /\ r.writes[1].outcome = Ok /\ ~HasError(r)) =>
                  r.notes = <<CreatedNote(r)>>
            /\ r.pc \in {"open", "show", "done"}

\* C5 witness: the path style prompt was dismissed and the file was created
C5_Witness ==
    \E p \in Procs :
      /\ inv[p].pathChoice = Null /\ inv[p].pc = "done"
      /\ inv[p].pyFiles # << >>
      /\ inv[p].notes = <<CreatedNote(inv[p])>>
      /\ fs[inv[p].filePath] = ExactBody(inv[p].command)

\* ------------------------------------------------------ renderer claims
\* the file items of the renderer's input that carry an import type
Imported(sel) == { i \in DOMAIN sel : sel[i].isFile /\ sel[i].importType \in ImportTypes }

\* line is an import line of the keyword for a path of one of the input's items
IsLineOf(line, keyword) ==
    \E i \in DOMAIN render.selectedImports :
       \/ line = keyword \o "    " \o render.selectedImports[i].relativePath \o "\n"
       \/ line = keyword \o "    " \o render.selectedImports[i].absolutePath \o "\n"

\* C2: for every sequence of selections given to generateSettingsSection and
\* either path style, every Library line precedes every Resource line and
\* every Resource line precedes every Variables line of the output, whatever
\* the order of the selections.
C2_KindOrder ==
    render.phase = "output" =>
      LET lines == render.lines
      IN  /\ render.text = "*** Settings ***\n" \o Concat(lines)
          /\ Len(lines) = Cardinality(Imported(render.selectedImports))
          /\ \A i \in DOMAIN lines : \E k \in ImportTypes : IsLineOf(lines[i], k)
          /\ \A i, j \in DOMAIN lines :
               i < j =>
                 /\ ~(IsLineOf(lines[i], "Resource") /\ IsLineOf(lines[j], "Library"))
                 /\ ~(IsLineOf(lines[i], "Variables") /\ IsLineOf(lines[j], "Library"))
                 /\ ~(IsLineOf(lines[i], "Variables") /\ IsLineOf(lines[j], "Resource"))

\* C2 witness: the selections were given as Variables, Resource, Library and
\* the output holds the three lines, the Library line first
C2_Witness ==
    /\ render.phase = "output"
    /\ Len(render.selectedImports) = 3
    /\ render.selectedImports[1].importType = "Variables"
    /\ render.selectedImports[2].importType = "Resource"
    /\ render.selectedImports[3].importType = "Library"
    /\ \A i \in 1..3 : render.selectedImports[i].isFile
    /\ Len(render.lines) = 3
    /\ IsLineOf(render.lines[1], "Library")
    /\ IsLineOf(render.lines[3], "Variables")

\* the number of leading segments two paths share
SharedPrefix(d, t) ==
    CHOOSE k \in 0..Len(d) :
       /\ k <= Len(t)
       /\ \A i \in 1..k : d[i] = t[i]
       /\ (k < Len(d) /\ k < Len(t)) => d[k + 1] # t[k + 1]

\* the path from directory d to file f as the claim words it
FromTargetDir(d, f) ==
    LET t == Segs(f)
        k == SharedPrefix(d, t)
    IN  JoinWith([i \in 1..(Len(d) - k) |-> ".."] \o [i \in 1..(Len(t) - k) |-> t[k + i]], "/")

\* the path of file f below the workspace root
FromWorkspaceRoot(f) ==
    LET t == Segs(f)
    IN  JoinWith([i \in 1..(Len(t) - Len(WsRoot)) |-> t[Len(WsRoot) + i]], "/")

\* C3: with the relative path style the path on each import line is the path
\* from the target directory to the file (one '..' for each segment of the
\* target directory below the common ancestor, then the file's remaining
\* segments, joined by '/'), so Library/locators.py seen from Tests/ is
\* 'Library    ../Library/locators.py'; with the workspace path style it is
\* the file's path below the workspace root.
C3_RenderedPaths ==
    render.phase = "output" =>
      LET sel == render.selectedImports
          Path(it) == IF render.pathType = "relative"
                      THEN FromTargetDir(render.targetDir, it.filePath)
                      ELSE FromWorkspaceRoot(it.filePath)
      IN  /\ Range(render.lines) =
                { sel[i].importType \o "    " \o Path(sel[i]) \o "\n" : i \in Imported(sel) }
          /\ \A i \in Imported(sel) :
               (/\ sel[i].filePath = LocatorsPy /\ sel[i].importType = "Library"
                /\ render.targetDir = TestsDir /\ render.pathType = "relative")
               => "Library    ../Library/locators.py\n" \in Range(render.lines)

\* C3 witness: Library/locators.py was rendered for a file of Tests/sub with
\* the relative style, on the platform whose separator is the backslash
C3_Witness ==
    /\ render.phase = "output" /\ render.pathType = "relative"
    /\ render.targetDir = <<"ws", "Tests", "sub">> /\ platform = "win32"
    /\ render.text = "*** Settings ***\nLibrary    ../../Library/locators.py\n"

\* ------------------------------------------------------------ flow claims
\* C6 as stated: when the user dismisses the picker without confirming, the
\* session yields an empty selection list and the target file is not
\* modified.
C6_DismissLeavesFileAlone ==
    \A p \in Procs :
      LET r == inv[p]
      IN  r.pickerEnd = "dismissed" =>
            /\ r.result = << >> /\ r.selectedImports = << >>
            /\ r.writes = << >>
            /\ r.existed => fs[r.filePath] = OldContent
            /\ ~r.existed => r.filePath \notin DOMAIN fs

\* C6 as amended: when the user dismisses the picker without confirming, the
\* session yields an empty selection list and the command goes on to write
\* the target file, once, with the import-free body.
C6_DismissWritesImportFree ==
    \A p \in Procs :
      LET r == inv[p]
      IN  r.pickerEnd = "dismissed" =>
            /\ r.settled /\ r.result = << >> /\ r.selectedImports = << >>
            /\ r.picker = "disposed"
            /\ Len(r.writes) = 1
            /\ r.writes[1].path = r.filePath
            /\ r.writes[1].body = ExactBody(r.command)
            /\ r.writes[1].outcome = Ok => fs[r.filePath] = ExactBody(r.command)

\* C6 witness: the picker was dismissed and the file that was on disk now
\* holds the import-free body
C6_Witness ==
    \E p \in Procs :
      /\ inv[p].pickerEnd = "dismissed" /\ inv[p].existed /\ inv[p].pc = "done"
      /\ fs[inv[p].filePath] = ExactBody(inv[p].command)
      /\ fs[inv[p].filePath] # OldContent

\* the characters of the class [A-Za-z0-9_-] among those the model types
ClassChars ==
    {"a", "b", "c", "e", "f", "i", "l", "m", "n", "o", "r", "s", "t", "y",
     "Z", "2", "9", "_", "-"}
\* a name the claim says is accepted
Acceptable(v) == v # << >> /\ \A i \in DOMAIN v : v[i] \in ClassChars

\* C7: the validator accepts a name exactly when it is non-empty and made of
\* characters of [A-Za-z0-9_-] only ('my file' and 'a/b' are rejected,
\* 'my_file-2' is accepted); a rejected name gives a validation message and
\* leaves the prompt open, and no write is made with a rejected name.
C7_ValidatorExact ==
    \A p \in Procs :
      LET r == inv[p]
      IN  /\ r.pc = "name" =>
               /\ (r.inputMsg = Null) <=> Acceptable(r.inputValue)
               /\ ~Acceptable(r.inputValue) =>
                     /\ r.inputMsg \in {MsgEmpty, MsgChars}
                     /\ r.notes = << >> /\ r.writes = << >>
               /\ r.inputValue \in {MyFile, ASlashB} => r.inputMsg = MsgChars
               /\ r.inputValue = MyFile2 => r.inputMsg = Null
          /\ r.pc \notin {"idle", "name"} /\ r.namePrompts = 1 /\ r.filePath # NoFile =>
               Acceptable(r.inputValue)
          /\ \A i \in DOMAIN r.writes :
               /\ Acceptable(r.inputValue)
               /\ r.writes[i].path.stem = Concat(r.inputValue)

\* C7 witness: 'my_file-2' was accepted and written after an earlier value
\* had been rejected
C7_Witness ==
    \E p \in Procs :
      /\ inv[p].rejectedOnce /\ inv[p].inputValue = MyFile2
      /\ inv[p].writes # << >>
      /\ inv[p].writes[1].outcome = Ok
      /\ inv[p].writes[1].path.stem = "my_file-2"

\* what the 'no workspace' error looks like: the error, at once, and nothing else
NoWorkspaceEnd(r) ==
    /\ r.pc = "done" /\ r.notes = <<NoWorkspaceNote>>
    /\ r.namePrompts = 0 /\ r.writes = << >> /\ r.scans = 0

\* C8 as stated: with no workspace folder open, each of the four scaffold
\* commands, invoked with a folder or without, shows the 'no workspace' error
\* at once and ends without a file name prompt and without a write.
C8_NoWorkspaceAlwaysFatal ==
    \A p \in Procs :
      (workspaceFolders = << >> /\ inv[p].pc # "idle") => NoWorkspaceEnd(inv[p])

\* C8 as amended: with no workspace folder open, a command run by
\* createRobotFileWithImports (test, resource, variables in extension.ts),
\* invoked with a folder or without, and a command run by createRobotFile
\* (locators; all four in the build without import selection) invoked
\* without a folder, shows the 'no workspace' error at once and ends without
\* a file name prompt and without a write; createRobotFile invoked with a
\* folder does not look for a workspace and goes on to the file name prompt.
C8_NoWorkspaceFatalUnlessSimpleWithUri ==
    \A p \in Procs :
      LET r == inv[p]
      IN  (workspaceFolders = << >> /\ r.pc # "idle") =>
            IF r.handler = "createRobotFileWithImports" \/ r.uri = NoUri
            THEN NoWorkspaceEnd(r)
            ELSE /\ r.namePrompts = 1
                 /\ \A i \in DOMAIN r.notes : r.notes[i] # NoWorkspaceNote

\* C8 witness: the test command of extension.ts, invoked on a folder with no
\* workspace open, ended with the error
C8_Witness ==
    \E p \in Procs :
      /\ workspaceFolders = << >> /\ inv[p].command = "test" /\ inv[p].uri = TestsDir
      /\ inv[p].handler = "createRobotFileWithImports"
      /\ NoWorkspaceEnd(inv[p])

\* C9: if the scan for candidate files fails, the command treats it as no
\* candidate found: it still creates the file, with an import-free settings
\* block, and does not fail.
C9_ScanFailureDegrades ==
    \A p \in Procs :
      LET r == inv[p]
      IN  r.scanFailed =>
            /\ r.pc # "rejected"
            /\ Len(r.writes) = 1
            /\ r.writes[1].body = ExactBody(r.command)

\* C10: if the write fails, the command shows an error notification with the
\* underlying error message, shows no success notification, does not ask for
\* the document to be opened, and ends without writing again; a success
\* notification is shown only when the invocation's write succeeded, and
\* never with an error notification.
C10_WriteFailureReported ==
    \A p \in Procs :
      LET r == inv[p]
      IN  /\ \A i \in DOMAIN r.writes :
               r.writes[i].outcome # Ok =>
                 /\ Len(r.writes) = 1
                 /\ r.pc = "done"
                 /\ r.notes = <<Note("error", "Failed to create file: "
                                              \o r.writes[i].outcome.message)>>
                 /\ r.opens = 0 /\ r.shows = 0
          /\ HasInfo(r) =>
               /\ Len(r.writes) = 1 /\ r.writes[1].outcome = Ok
               /\ ~HasError(r)
               /\ r.notes = <<CreatedNote(r)>>

\* C10 witness: the write of createRobotFile failed on a full device
C10_Witness ==
    \E p \in Procs :
      /\ inv[p].handler = "createRobotFile"
      /\ inv[p].writes # << >> /\ inv[p].writes[1].outcome = ENOSPC
      /\ inv[p].notes =
           <<Note("error", "Failed to create file: ENOSPC: no space left on device")>>

\* C11: if the write succeeds and opening the destination for viewing then
\* fails, the file stays written with the rendered body and the command
\* reports no error.
C11_OpenFailureNonFatal ==
    \A p \in Procs :
      LET r == inv[p]
      IN  (r.pc = "done" /\ r.writes # << >> /\ r.writes[1].outcome = Ok /\ ~HasInfo(r)) =>
            /\ fs[r.filePath] = r.writes[1].body
            /\ ~HasError(r)

\* --------------------------------------------------------- grouping claims
\* the (file, kind) pairs a hierarchy must show for the files of a search
PairsOf(pyFiles, resourceFiles) ==
    { <<pyFiles[i], k>> : i \in DOMAIN pyFiles, k \in {"Library", "Variables"} }
    \cup { <<resourceFiles[i], k>> : i \in DOMAIN resourceFiles, k \in {"Resource", "Variables"} }

\* the leaves are exactly the pairs, each once
ExactlyThePairs(leaves, pairs) ==
    /\ \A i \in DOMAIN leaves : <<leaves[i].filePath, leaves[i].importType>> \in pairs
    /\ \A pr \in pairs :
         Cardinality({ i \in DOMAIN leaves :
                         <<leaves[i].filePath, leaves[i].importType>> = pr }) = 1

\* the file items among the items of the quick pick
ItemLeaves(items) == LET IsFile(it) == it.isFile IN SelectSeq(items, IsFile)

\* C12: for every list of files a search returns, at any folder depth, the
\* leaves of the provider's tree and the file items of the quick pick are
\* exactly one per (file, applicable kind) pair - Library and Variables for
\* a .py file, Resource and Variables for a .resource file - none missing
\* and none twice; with no files both hierarchies are empty.
C12_LeavesAreThePairs ==
    LET pairs == PairsOf(tree.pyFiles, tree.resourceFiles)
    IN  /\ tree.built =>
              /\ ExactlyThePairs(TreeLeaves(tree.provider.rootItems), pairs)
              /\ pairs = {} => tree.provider.rootItems = << >>
        /\ tree.listed =>
              /\ ExactlyThePairs(ItemLeaves(tree.items), pairs)
              /\ pairs = {} => tree.items = << >>

\* C12 witness: both hierarchies are built over a file in the workspace
\* root, two files of one folder and a file in a folder of that folder
C12_Witness ==
    /\ tree.built /\ tree.listed
    /\ Range(tree.pyFiles) = {File(WsRoot, "a", ".py"), File(LibraryDir, "B", ".py"),
                              File(<<"ws", "Library", "sub">>, "a", ".py")}
    /\ Len(tree.resourceFiles) = 2
    /\ Len(TreeLeaves(tree.provider.rootItems)) = 10
    /\ Len(ItemLeaves(tree.items)) = 10

RECURSIVE TreeFolders(_)
\* the section and folder items of a tree
TreeFolders(items) ==
    IF items = << >> THEN << >>
    ELSE (IF Head(items).isFile THEN << >>
          ELSE <<Head(items)>> \o TreeFolders(Head(items).children))
         \o TreeFolders(Tail(items))

\* the labels of the folder children and the files of the file children of a
\* tree item, in the order of its children
FolderKids(node) ==
    LET IsFolder(it) == ~it.isFile
        kids == SelectSeq(node.children, IsFolder)
    IN  [i \in DOMAIN kids |-> kids[i].label]
FileKids(node) ==
    LET IsFile(it) == it.isFile
        kids == SelectSeq(node.children, IsFile)
    IN  [i \in DOMAIN kids |-> kids[i].filePath]

\* a sequence of names ascends by code units: strictly, or with equal
\* neighbours allowed
AscendingStrictly(names) ==
    \A i, j \in DOMAIN names : i < j => CodeUnitLess(names[i], names[j])
AscendingByCodeUnits(names) ==
    \A i, j \in DOMAIN names : i < j => ~CodeUnitLess(names[j], names[i])
\* where localeCompare places the base names of the candidate files
CollationRank(name) ==
    CASE name = "a.py" -> 1 [] name = "B.py" -> 2 [] name = "common.resource" -> 3
      [] name = "locators.py" -> 4
AscendingByLocale(names) ==
    \A i, j \in DOMAIN names : i < j => CollationRank(names[i]) <= CollationRank(names[j])

\* the base names of a sequence of files
BaseNames(files) == [i \in DOMAIN files |-> BaseName(files[i])]

\* the file items of the quick pick that show files with extension ext in
\* the folder, as files, in the order of the items
ItemsOfFolder(items, folder, ext) ==
    LET In(it) == it.isFile /\ it.folderPath = folder /\ it.filePath.ext = ext
        its == SelectSeq(items, In)
    IN  [i \in DOMAIN its |-> its[i].filePath]

\* the folders of the folder separators of one section of the quick pick
\* (the section of the .py files or of the .resource files), in order
SectionFolders(items, ofResources) ==
    LET IsResHeader(i) == items[i].label = "$(folder-library) Resource Files (.resource)"
        InSection(i) == (\E h \in 1..i : IsResHeader(h)) = ofResources
        idx == { i \in DOMAIN items : ~items[i].isFile /\ items[i].depth > 0 /\ InSection(i) }
        RECURSIVE Pick(_)
        Pick(i) == IF i > Len(items) THEN << >>
                   ELSE (IF i \in idx THEN <<items[i].folderPath>> ELSE << >>) \o Pick(i + 1)
    IN  Pick(1)

\* a sequence keeps the relative order its members have in the scan
InScanOrder(files, scan) ==
    \A i, j \in DOMAIN files :
      i < j => \E a, b \in DOMAIN scan : a <= b /\ scan[a] = files[i] /\ scan[b] = files[j]

TreeFolderNames == {".", "Library", "Library/sub", "Tests"}
TreeExts == {".py", ".resource"}

\* C20 as stated: in both hierarchies the file leaves under a folder are in
\* ascending order of their names compared case-sensitively (by code units,
\* a capital before a small letter), whatever the order of the scan, and
\* sibling folders are in ascending order of their names.
C20_FilesSortedCaseSensitively ==
    /\ tree.built =>
         \A k \in DOMAIN TreeFolders(tree.provider.rootItems) :
           LET node == TreeFolders(tree.provider.rootItems)[k]
           IN  /\ AscendingByCodeUnits(BaseNames(FileKids(node)))
               /\ AscendingStrictly(FolderKids(node))
    /\ tree.listed =>
         /\ \A fo \in TreeFolderNames, e \in TreeExts :
               AscendingByCodeUnits(BaseNames(ItemsOfFolder(tree.items, fo, e)))
         /\ \A b \in BOOLEAN : AscendingStrictly(SectionFolders(tree.items, b))

\* C20 as amended: in the quick pick the file items of a folder are in
\* ascending localeCompare order of their base names (letters that differ
\* only in case next to each other, so 'a.py' before 'B.py'), whatever the
\* order of the scan; in the provider's tree the files of a folder keep the
\* order of the scan; in both, sibling folders are in ascending code unit
\* order of their names.
C20_FilesSortedByLocaleInPicker ==
    /\ tree.built =>
         /\ \A k \in DOMAIN TreeFolders(tree.provider.rootItems) :
              LET node == TreeFolders(tree.provider.rootItems)[k]
              IN  /\ InScanOrder(FileKids(node), tree.pyFiles \o tree.resourceFiles)
                  /\ AscendingStrictly(FolderKids(node))
    /\ tree.listed =>
         /\ \A fo \in TreeFolderNames, e \in TreeExts :
               AscendingByLocale(BaseNames(ItemsOfFolder(tree.items, fo, e)))
         /\ \A b \in BOOLEAN : AscendingStrictly(SectionFolders(tree.items, b))

\* C20 witness: the scan gave Library/B.py before Library/a.py and a file of
\* Tests before both; the quick pick shows Library before Tests, and in it
\* a.py before B.py
C20_Witness ==
    /\ tree.listed
    /\ tree.pyFiles = <<File(TestsDir, "a", ".py"), File(LibraryDir, "B", ".py"),
                        File(LibraryDir, "a", ".py")>>
    /\ SectionFolders(tree.items, FALSE) = <<"Library", "Tests">>
    /\ BaseNames(ItemsOfFolder(tree.items, "Library", ".py")) = <<"a.py", "a.py", "B.py", "B.py">>

\* ------------------------------------------------------ interleaving claims
\* the invocation is in its selection session: its scan is under way or one
\* of its prompts for the imports is open
InSession(r) == r.pc \in {"scanPy", "scanRes", "pathStyle", "picker"}

\* C13: at most one selection session is open at a time - while one flow is
\* between its scan and its confirm or cancel, no other invocation for the
\* same target is in a session - and within one session the scan, the
\* picker and the write are never under way together.
C13_OneSessionAtATime ==
    /\ \A p, q \in DOMAIN inv :
         (p # q /\ InSession(inv[p]) /\ InSession(inv[q])) =>
            inv[p].filePath # inv[q].filePath
    /\ \A p \in DOMAIN inv :
         LET r == inv[p]
         IN  /\ r.picker = "shown" => (r.pc = "picker" /\ r.scans = 2 /\ r.writes = << >>)
             /\ r.pc \in {"scanPy", "scanRes"} => (r.picker = "none" /\ r.writes = << >>)

\* C16: in every interleaving of scaffold commands, a destination file that
\* is on disk at the moment of a write is written over only by an invocation
\* in which the user answered 'Yes' to the overwrite prompt.
C16_OverwriteOnlyAfterYes ==
    [][\A p \in DOMAIN inv :
         (Len(inv'[p].writes) > Len(inv[p].writes) /\ inv'[p].filePath \in DOMAIN fs)
            => inv'[p].overwrite = "Yes"]_vars

\* ------------------------------------------------------- tree view claims
\* the list handed on is the file items of the result, with their kinds
SameLeaves(imports, result) ==
    /\ Len(imports) = Len(result)
    /\ \A i \in DOMAIN imports :
         /\ imports[i].isFile /\ result[i].isFile
         /\ imports[i].filePath = result[i].filePath
         /\ imports[i].importType = result[i].importType

\* C17: the picker's pending result is settled once in a session: after an
\* accept it is the selected file items with their kinds, and the hide
\* event that follows does not change it; after a hide with no accept it is
\* empty; once settled it never changes; and the confirmSelection and
\* skipSelection commands change nothing when no result is pending.
C17_ResultSettledOnce ==
    /\ [](\A p \in DOMAIN inv :
            LET r == inv[p]
            IN  /\ r.pickerEnd = "accepted" =>
                     (r.settled /\ SameLeaves(r.selectedImports, r.result))
                /\ r.pickerEnd = "dismissed" =>
                     (r.settled /\ r.result = << >> /\ r.selectedImports = << >>)
                /\ r.picker \in {"hiding", "disposed"} => r.settled)
    /\ [][\A p \in DOMAIN inv :
            inv[p].settled =>
              /\ inv'[p].settled
              /\ inv'[p].result = inv[p].result
              /\ inv'[p].selectedImports = inv[p].selectedImports]_vars
    /\ [][(tree'.commands # tree.commands /\ resolveSelection = << >>) =>
            UNCHANGED <<inv, fs, currentTreeProvider, resolveSelection,
                        showImportSelector>>]_vars

\* C17 witness: an item was accepted, the hide event has been handled since,
\* the result still holds the item, and one of the two commands has run
C17_Witness ==
    \E p \in DOMAIN inv :
      /\ inv[p].pickerEnd = "accepted" /\ inv[p].picker = "disposed"
      /\ Len(inv[p].result) = 1 /\ inv[p].result[1].importType = "Library"
      /\ tree.phase = "checks" /\ tree.commands = 1

\* the items are file items that carry one of the three import kinds
OnlyLeaves(items) ==
    \A i \in DOMAIN items : items[i].isFile /\ items[i].importType \in ImportTypes

\* the checked set of the installed provider
Checked == Range(getCheckedItems(currentTreeProvider[1]))

\* C19: after any sequence of checkbox changes, accepts and dismissals, only
\* file items hold selection state: the checked set and the list handed to
\* the renderer hold no section, folder or separator, and each member has
\* one import kind; ticking a file item puts it in the checked set and
\* unticking takes it out, however often repeated; and a change of one
\* item's box leaves every other item as it was.
C19_OnlyLeavesHoldSelection ==
    /\ [](/\ OnlyLeaves(getCheckedItems(currentTreeProvider[1]))
          /\ \A i, j \in DOMAIN getCheckedItems(currentTreeProvider[1]) :
                getCheckedItems(currentTreeProvider[1])[i]
                  = getCheckedItems(currentTreeProvider[1])[j] => i = j
          /\ \A p \in DOMAIN inv : OnlyLeaves(inv[p].selectedImports)
          /\ \A k \in DOMAIN tree.event :
                tree.event[k].item.isFile =>
                   (tree.event[k].item \in Checked <=> tree.event[k].state = "Checked"))
    /\ [][currentTreeProvider' # currentTreeProvider =>
            /\ tree'.event # << >>
            /\ \A y \in ShownItems :
                 y # tree'.event[1].item =>
                   (y \in Range(getCheckedItems(currentTreeProvider'[1])) <=> y \in Checked)]_vars

\* C19 witness: both file items of locators.py were ticked, the Library one
\* was then unticked, a folder's box was changed last, and a picker session
\* handed one selection to the renderer
C19_Witness ==
    /\ tree.phase = "checks"
    /\ Len(getCheckedItems(currentTreeProvider[1])) = 1
    /\ getCheckedItems(currentTreeProvider[1])[1].importType = "Variables"
    /\ tree.event # << >> /\ ~tree.event[1].item.isFile /\ tree.event[1].state = "Checked"
    /\ \E p \in DOMAIN inv : Len(inv[p].selectedImports) = 1 /\ inv[p].pc = "done"

\* ------------------------------------------------- renderer order claims
\* the selections of one kind among the first i items of the input
OfKindUpTo(sel, kind, i) ==
    { j \in 1..i : sel[j].isFile /\ sel[j].importType = kind }

\* the number of lines of the groups that precede the group of a kind
GroupStart(sel, kind) ==
    CASE kind = "Library"   -> 0
      [] kind = "Resource"  -> Cardinality(OfKindUpTo(sel, "Library", Len(sel)))
      [] kind = "Variables" -> Cardinality(OfKindUpTo(sel, "Library", Len(sel)))
                                 + Cardinality(OfKindUpTo(sel, "Resource", Len(sel)))

\* the lines are those of the selections: the n-th selection of a kind is
\* the n-th line of the kind's group, and there is no other line
OneLinePerSelection(lines, sel, pathType) ==
    /\ Len(lines) = Cardinality(UNION { OfKindUpTo(sel, k, Len(sel)) : k \in ImportTypes })
    /\ \A k \in ImportTypes : \A i \in OfKindUpTo(sel, k, Len(sel)) :
          lines[GroupStart(sel, k) + Cardinality(OfKindUpTo(sel, k, i))]
            = k \o "    "
                \o (IF pathType = "relative" THEN sel[i].relativePath
                    ELSE sel[i].absolutePath)
                \o "\n"

\* C18: within each kind the renderer emits exactly one line per selection
\* of that kind, in the order of its input: the n-th selection of a kind is
\* the n-th line of that kind's group, a selection given twice has two
\* lines, a file selected under two kinds has one line in each kind's group,
\* and the list made from the picker's result keeps the picked file items in
\* the order they were picked.
C18_InputOrderWithinKind ==
    render.phase = "output" =>
      LET sel == render.selectedImports
          conv == ConvertResult(sel)
          picked == { i \in DOMAIN sel : sel[i].isFile }
      IN  /\ OneLinePerSelection(render.lines, sel, render.pathType)
          /\ render.text = "*** Settings ***\n" \o Concat(render.lines)
          /\ Len(conv) = Cardinality(picked)
          /\ \A i \in picked :
               LET c == conv[Cardinality({ j \in picked : j <= i })]
               IN  /\ c.filePath = sel[i].filePath /\ c.importType = sel[i].importType
                   /\ c.relativePath = sel[i].relativePath
                   /\ c.absolutePath = sel[i].absolutePath /\ c.isFile
          /\ SettingsLines(conv, render.pathType) = render.lines

\* C18 witness: locators.py was given as Variables, then as Library, then
\* common.resource as Variables; the Library line comes
\* first and the two Variables lines keep the order locators.py,
\* common.resource, which is not their alphabetical order
C18_Witness ==
    /\ render.phase = "output" /\ render.pathType = "absolute"
    /\ Len(render.selectedImports) = 3
    /\ render.selectedImports[1].filePath = LocatorsPy
    /\ render.selectedImports[1].importType = "Variables"
    /\ render.selectedImports[2].filePath = LocatorsPy
    /\ render.selectedImports[2].importType = "Library"
    /\ render.selectedImports[3].filePath = CommonResource
    /\ render.selectedImports[3].importType = "Variables"
    /\ render.lines = << "Library    Library/locators.py\n",
                         "Variables    Library/locators.py\n",
                         "Variables    common.resource\n" >>

\* ------------------------------------------- the import-editing session
\* The import-editing action, its pre-population from the target's settings
\* block and its target lock are described in spec.md (3, 4.3, 5) and in
\* readme.md; extension.ts has no code for them. The definitions of this
\* section are written from those descriptions.

EditTarget     == ARobot
EditCandidates == {LocatorsPy, CommonResource}

SettingsHeader  == "*** Settings ***\n"
CommonLine      == "Resource    ../common.resource\n"
LocatorsLine    == "Library    ../Library/locators.py\n"
CollectionsLine == "Library    Collections\n"

\* the documents the target may hold when the action starts, as lines
EditDocs ==
    { <<SettingsHeader>> \o imports \o <<"\n", "\n", "*** Test Cases ***\n">> :
        imports \in { << >>, <<CommonLine>>, <<LocatorsLine>>,
                      <<CommonLine, LocatorsLine>>, <<LocatorsLine, CommonLine>>,
                      <<CollectionsLine, CommonLine>> } }

\* the lines of a text
SplitLines(text) == CHOOSE ls \in EditDocs : Concat(ls) = text

NoImport == [keyword |-> Null, path |-> ""]

\* the keyword and the path of an import line
ImportOf(line) ==
    CASE line = CommonLine      -> [keyword |-> "Resource", path |-> "../common.resource"]
      [] line = LocatorsLine    -> [keyword |-> "Library", path |-> "../Library/locators.py"]
      [] line = CollectionsLine -> [keyword |-> "Library", path |-> "Collections"]
      [] OTHER                  -> NoImport

IsImportLine(line) == ImportOf(line).keyword # Null

\* the number of import lines that follow the header of a document
BlockLen(ls) ==
    CHOOSE k \in 0..(Len(ls) - 1) :
       /\ \A i \in 2..(k + 1) : IsImportLine(ls[i])
       /\ (k + 2 <= Len(ls)) => ~IsImportLine(ls[k + 2])

\* the import lines of the settings block, and the lines after them
BlockOf(ls) == SubSeq(ls, 2, BlockLen(ls) + 1)
RestOf(ls)  == SubSeq(ls, BlockLen(ls) + 2, Len(ls))

\* the import kinds a discovered file may be selected under
KindsOf(f) == IF f.ext = ".py" THEN {"Library", "Variables"} ELSE {"Resource", "Variables"}

ImportSelection(f, kind) == [file |-> f, kind |-> kind]

\* the leaves of the hierarchy over the discovered files
EditLeaves(discovered) ==
    UNION { { ImportSelection(discovered[i], k) : k \in KindsOf(discovered[i]) } :
              i \in DOMAIN discovered }

\* the discovered files an import line refers to, under the line's kind
Declared(line, discovered, targetDir) ==
    { sel \in EditLeaves(discovered) :
        /\ sel.kind = ImportOf(line).keyword
        /\ \/ ImportOf(line).path = getRelativePath(targetDir, sel.file, "posix")
           \/ ImportOf(line).path = getAbsolutePath(WsRoot, sel.file, "posix") }

\* the leaves pre-checked for the lines of a settings block, in line order
PreChecked(block, discovered, targetDir) ==
    LET Known(line) == Declared(line, discovered, targetDir) # {}
        known == SelectSeq(block, Known)
    IN  [i \in 1..Len(known) |-> CHOOSE sel \in Declared(known[i], discovered, targetDir) : TRUE]

\* the lines of a settings block that refer to no discovered file
Foreign(block, discovered, targetDir) ==
    LET Unknown(line) == Declared(line, discovered, targetDir) = {}
    IN  SelectSeq(block, Unknown)

\* the renderer's input for the checked selections
EditItems(checked, targetDir) ==
    [i \in 1..Len(checked) |->
       FileTreeItem(BaseName(checked[i].file), checked[i].file,
                    getRelativePath(targetDir, checked[i].file, "posix"),
                    getAbsolutePath(WsRoot, checked[i].file, "posix"),
                    checked[i].kind)]

\* a slip the specification warns of: confirm writes the checked selections only
ConfirmedLinesDroppingForeign(s, place) ==
    <<SettingsHeader>> \o SettingsLines(EditItems(s.checked, s.target.dir), s.pathStyle)
                       \o s.rest

\* the lines written on confirm: the header, the lines kept verbatim and the
\* lines of the checked selections, then the rest of the document; the
\* specification does not say which of the two groups comes first
ConfirmedLines(s, place) ==
    LET rendered == SettingsLines(EditItems(s.checked, s.target.dir), s.pathStyle)
    IN  <<SettingsHeader>>
        \o (IF place = "before" THEN s.foreign \o rendered ELSE rendered \o s.foreign)
        \o s.rest

\* a toggle of a leaf: checked if it was not, unchecked if it was
Toggled(checked, sel) ==
    LET Other(c) == c # sel
    IN  IF \E i \in DOMAIN checked : checked[i] = sel
        THEN SelectSeq(checked, Other) ELSE Append(checked, sel)

\* View File on a file other than the target: the target is locked
Viewing(s, f) == [s EXCEPT !.state = "Locked", !.active = f, !.last = "viewFile"]

\* Go to Target File: the user is back at the target, which unlocks
Returned(s) == [s EXCEPT !.state = "Browsing", !.active = s.target, !.last = "goToTarget"]

\* a slip: a direct switch of the active file leaves the lock in place
SwitchedKeepingLock(s, f) == [s EXCEPT !.active = f, !.last = "switchActive"]

\* the active file is switched directly, to the target or to another
\* candidate file: a lock is released
Switched(s, f) == [s EXCEPT !.state = "Browsing", !.active = f, !.last = "switchActive"]

EditIdle ==
    [phase |-> "edit", state |-> "Idle", target |-> NoFile, active |-> NoFile,
     discovered |-> << >>, pathStyle |-> Null, block |-> << >>, rest |-> << >>,
     checked |-> << >>, foreign |-> << >>, written |-> << >>, last |-> Null]

\* the rest of the program is idle while an import-editing session runs
EditFrame == UNCHANGED <<workspaceFolders, platform, build, inv, render, globals>>

\* the import-editing action is invoked on the target
EditImports ==
    /\ tree.phase = "edit" /\ tree.state = "Idle"
    /\ EditTarget \in DOMAIN fs
    /\ tree' = [tree EXCEPT !.state = "Scanning", !.target = EditTarget,
                            !.active = EditTarget,
                            !.block = BlockOf(SplitLines(fs[EditTarget])),
                            !.rest = RestOf(SplitLines(fs[EditTarget])),
                            !.last = "editImports"]
    /\ UNCHANGED fs /\ EditFrame

\* the scan of the workspace completes
EditScanDone(pyFiles, resourceFiles) ==
    /\ tree.phase = "edit" /\ tree.state = "Scanning"
    /\ tree' = [tree EXCEPT !.state = "AwaitingPathStyle",
                            !.discovered = pyFiles \o resourceFiles,
                            !.last = "scanDone"]
    /\ UNCHANGED fs /\ EditFrame

\* the path style is chosen: the hierarchy is shown, the leaves of the
\* declared imports pre-checked
EditPathStyle(pathStyle) ==
    /\ tree.phase = "edit" /\ tree.state = "AwaitingPathStyle"
    /\ tree' = [tree EXCEPT !.state = "Browsing", !.pathStyle = pathStyle,
                            !.checked = PreChecked(tree.block, tree.discovered,
                                                   tree.target.dir),
                            !.foreign = Foreign(tree.block, tree.discovered,
                                                tree.target.dir),
                            !.last = "pathStyle"]
    /\ UNCHANGED fs /\ EditFrame

\* the path style prompt is dismissed
EditDismissPathStyle ==
    /\ tree.phase = "edit" /\ tree.state = "AwaitingPathStyle"
    /\ tree' = [tree EXCEPT !.state = "Cancelled", !.last = "cancel"]
    /\ UNCHANGED fs /\ EditFrame

\* the user toggles a leaf
EditToggle(sel) ==
    /\ tree.phase = "edit" /\ tree.state = "Browsing"
    /\ sel \in EditLeaves(tree.discovered)
    /\ Len(Toggled(tree.checked, sel)) <= MaxSel
    /\ tree' = [tree EXCEPT !.checked = Toggled(tree.checked, sel), !.last = "toggle"]
    /\ UNCHANGED fs /\ EditFrame

\* the user asks to view the content of another file
ViewFile(f) ==
    /\ tree.phase = "edit" /\ tree.state \in {"Browsing", "Locked"}
    /\ f \in Range(tree.discovered) /\ f # tree.target /\ f # tree.active
    /\ tree' = Viewing(tree, f)
    /\ UNCHANGED fs /\ EditFrame

\* the user takes the navigation affordance back to the target
GoToTarget ==
    /\ tree.phase = "edit" /\ tree.state = "Locked"
    /\ tree' = Returned(tree)
    /\ UNCHANGED fs /\ EditFrame

\* the user switches the active file directly
SwitchActive(f) ==
    /\ tree.phase = "edit" /\ tree.state \in {"Browsing", "Locked"}
    /\ f \in Range(tree.discovered) \cup {tree.target} /\ f # tree.active
    /\ tree' = Switched(tree, f)
    /\ UNCHANGED fs /\ EditFrame

\* the user accepts the selection set: the settings block is rewritten
EditConfirm(place) ==
    /\ tree.phase = "edit" /\ tree.state = "Browsing"
    /\ tree' = [tree EXCEPT !.state = "Confirmed",
                            !.written = ConfirmedLines(tree, place),
                            !.last = "confirm"]
    /\ fs' = [fs EXCEPT ![tree.target] = Concat(ConfirmedLines(tree, place))]
    /\ EditFrame

\* the user dismisses the session: the target is not modified
EditCancel ==
    /\ tree.phase = "edit" /\ tree.state = "Browsing"
    /\ tree' = [tree EXCEPT !.state = "Cancelled", !.last = "cancel"]
    /\ UNCHANGED fs /\ EditFrame

\* the target holds one of the documents; any of the candidates may be on disk
InitEdit ==
    /\ \E doc \in EditDocs, S \in SUBSET EditCandidates :
          fs = [f \in S \cup {EditTarget} |->
                  IF f = EditTarget THEN Concat(doc) ELSE OldContent]
    /\ workspaceFolders = <<WsRoot>>
    /\ platform = "posix"
    /\ build = "imports"
    /\ inv = [p \in Procs |-> Idle]
    /\ render = RenderIdle
    /\ tree = EditIdle
    /\ NoTreeView

NextEdit ==
    \/ EditImports
    \/ \E py \in Orders(Matching(fs, workspaceFolders, ".py")) :
          \E res \in Orders(Matching(fs, workspaceFolders, ".resource")) :
             EditScanDone(py, res)
    \/ \E pathStyle \in PathTypes : EditPathStyle(pathStyle)
    \/ EditDismissPathStyle
    \/ \E f \in EditCandidates, k \in ImportTypes : EditToggle(ImportSelection(f, k))
    \/ \E f \in EditCandidates : ViewFile(f)
    \/ GoToTarget
    \/ \E f \in EditCandidates \cup {EditTarget} : SwitchActive(f)
    \/ \E place \in {"before", "after"} : EditConfirm(place)
    \/ EditCancel

SpecEdit == InitEdit /\ [][NextEdit]_vars

RefersTo(line) ==
    CASE line = CommonLine   -> <<CommonResource>>
      [] line = LocatorsLine -> <<LocatorsPy>>
      [] OTHER               -> << >>

\* the import lines of a text that refer to no file of the discovered set
OutsideDiscovered(text, discovered) ==
    { line \in {CommonLine, LocatorsLine, CollectionsLine} :
        /\ \E doc \in EditDocs : Concat(doc) = text /\ line \in Range(doc)
        /\ Range(RefersTo(line)) \cap Range(discovered) = {} }

\* C15: when the import-editing session of an existing file is confirmed,
\* every import line of the file's settings block that refers to a file
\* outside the discovered set is a line of the text written, unchanged,
\* whatever was selected; with nothing selected and nothing declared from
\* the discovered set the lines of the file are those it had.
C15_ForeignLinesKept ==
    /\ [][(tree.state # "Confirmed" /\ tree'.state = "Confirmed") =>
            /\ fs'[tree.target] = Concat(tree'.written)
            /\ \A line \in OutsideDiscovered(fs[tree.target], tree.discovered) :
                  line \in Range(tree'.written)
            /\ (tree.checked = << >> /\ tree.last = "pathStyle") =>
                  fs'[tree.target] = fs[tree.target]]_vars
    /\ [](tree.phase = "edit" /\ tree.state = "Confirmed" =>
            fs[tree.target] = Concat(tree.written))

\* C15 witness: the target imported ../common.resource, which the scan did
\* not discover; the session was confirmed with nothing selected and the
\* file holds the line
C15_Witness ==
    /\ tree.phase = "edit" /\ tree.state = "Confirmed"
    /\ CommonResource \notin Range(tree.discovered)
    /\ tree.checked = << >>
    /\ tree.written = <<SettingsHeader, CommonLine, "\n", "\n", "*** Test Cases ***\n">>
    /\ fs[EditTarget] = "*** Settings ***\nResource    ../common.resource\n\n\n*** Test Cases ***\n"

====
